---- MODULE Spec2Model ----
(***************************************************************************)
(* PyShellyTemp persistence layer (pyshellytemp/db): record instances with *)
(* dirty tracking, lazy foreign keys, and the SQLite tables they are       *)
(* stored in.                                                              *)
(*                                                                         *)
(* Two record types are declared, as the ORM tests declare theirs:         *)
(*   class Parent(DBObject, table='parent'):  uval: int = unique()         *)
(*   class Child(DBObject, table='child', kw_only=True):                   *)
(*       ref: Parent                                                       *)
(*       opt: Parent | None = None                                         *)
(*                                                                         *)
(* The module holds several specifications over the same variables:        *)
(*   Spec       instances: create, load, assign, save, delete, read        *)
(*   RefineSpec Query descriptors: get_all, filter, order_by, slicing      *)
(*   QuerySpec  Query terminal operations: iterate, count, delete          *)
(*   ConnSpec   threads opening the Database connection                    *)
(*   SetupSpec  threads building the field list of a record type           *)
(*   FieldSpec  instances: construct, new_empty, assign, save              *)
(*   PathSpec   one thread: database path, init, lazy open                 *)
(*   HookSpec   one thread: init hooks, init, lazy open                    *)
(*   WriteSpec  Database.insert and Database.update_equal                  *)
(*   DeclSpec   record type declarations and the table registry            *)
(*   ReadSpec   instances: new_empty, load, assign, read, save             *)
(*   FetchSpec  get_one and get_opt                                        *)
(*   BuildSpec  one thread using a record type declared with errors        *)
(*   StoreSpec  value fields: create a row and fetch it by identity        *)
(*   TableSpec  the CREATE TABLE statement of a record type                *)
(* A specification leaves the variables of the others at their initial     *)
(* value.                                                                  *)
(***************************************************************************)
EXTENDS Integers, Sequences, FiniteSets, TLC

VARIABLES
    db,     \* the SQLite file: table name -> set of rows
    objs,   \* the DBObject instances the caller holds, by slot
    log,    \* statements handed to the Database by the last operation
    last,   \* the last operation called and how it ended
    nops,   \* number of operations performed
    queries, \* the Query descriptors the caller holds, in creation order
    heap,   \* the dicts and lists the descriptors refer to, by address
    threads, \* the threads of the process: where each one is, its locals
    dbase,  \* the Database object: path, connection, init lock, hooks, files
    tdef    \* a TableDef being set up, or the registry TableDef.tables

vars == <<db, objs, log, last, nops, queries, heap, threads, dbase, tdef>>

\* ---------------------------------------------------------------- bounds
MaxId == 2      \* row identities are 0..MaxId
MaxVal == 2     \* values of the integer column are 1..MaxVal
NInst == 2      \* instances the caller can hold
MaxOps == 4     \* operations in one run

Ids == 0..MaxId
Vals == 1..MaxVal
Slots == 1..NInst

\* ---------------------------------------------------------------- values
\* DBValue (access.py): None or an int
DBNull == [t |-> "null"]
DBInt(n) == [t |-> "int", v |-> n]

\* Python values held in attributes or passed by the caller
Unset == [t |-> "unset"]        \* slot never set (AttributeError on read)
PyNone == [t |-> "none"]
PyInt(n) == [t |-> "int", v |-> n]
PyObj(i) == [t |-> "obj", v |-> i]
PyStr == [t |-> "str"]          \* some str, the wrong type for every field here

EmptyMap == <<>>
Put(m, k, v) == [x \in (DOMAIN m) \cup {k} |-> IF x = k THEN v ELSE m[x]]

\* ---------------------------------------------------------------- schema
Tables == {"parent", "child"}

\* TableDef.fields, in declaration order, id first
fields(t) ==
    IF t = "parent" THEN <<"id", "uval">> ELSE <<"id", "ref", "opt">>

FieldNames(t) == {fields(t)[k] : k \in 1..Len(fields(t))}

\* ORMField of a declared field: ORMIDField.get, ORMValueField.create,
\* ORMFKField.create (db_name gets the _id suffix)
ORMField(t, f) ==
    CASE f = "id"   -> [db_name |-> "id", unique |-> TRUE, nullable |-> FALSE,
                        factory |-> FALSE, kind |-> "id", target |-> "none"]
      [] f = "uval" -> [db_name |-> "uval", unique |-> TRUE, nullable |-> FALSE,
                        factory |-> FALSE, kind |-> "value", target |-> "none"]
      [] f = "ref"  -> [db_name |-> "ref_id", unique |-> FALSE, nullable |-> FALSE,
                        factory |-> FALSE, kind |-> "fk", target |-> "parent"]
      [] f = "opt"  -> [db_name |-> "opt_id", unique |-> FALSE, nullable |-> TRUE,
                        factory |-> TRUE, kind |-> "fk", target |-> "parent"]

\* TableDef.db_cols
db_cols(t) == {ORMField(t, f).db_name : f \in FieldNames(t)}

FieldOfCol(t, c) == CHOOSE f \in FieldNames(t) : ORMField(t, f).db_name = c

\* DBFKField.get_fk_def: the on-delete policy follows nullability
get_fk_def(t, f) ==
    IF ORMField(t, f).nullable THEN "set null" ELSE "cascade"

\* ---------------------------------------------------------------- SQLite
RowIds(tbl) == {r["id"].v : r \in tbl}

MaxOf(S) == CHOOSE m \in S : \A n \in S : n <= m

\* rowid SQLite gives a row inserted without id: largest rowid + 1
NextRowId(tbl) == IF tbl = {} THEN 1 ELSE MaxOf(RowIds(tbl)) + 1

\* a unique column of the row already holds the value in another row
\* (NULLs never collide)
UniqueClash(t, others, row) ==
    \E f \in FieldNames(t) :
        /\ ORMField(t, f).unique
        /\ row[ORMField(t, f).db_name] # DBNull
        /\ \E o \in others :
              o[ORMField(t, f).db_name] = row[ORMField(t, f).db_name]

\* a foreign key column of the row names no row of its target table
\* (pragma foreign_keys = on)
FKDangling(d, t, row) ==
    \E f \in FieldNames(t) :
        /\ ORMField(t, f).kind = "fk"
        /\ row[ORMField(t, f).db_name] # DBNull
        /\ row[ORMField(t, f).db_name].v \notin RowIds(d[ORMField(t, f).target])

\* some row of another table references identity k of table t
Referenced(d, t, k) ==
    \E c \in Tables : \E f \in FieldNames(c) :
        /\ ORMField(c, f).kind = "fk"
        /\ ORMField(c, f).target = t
        /\ \E r \in d[c] : r[ORMField(c, f).db_name] = DBInt(k)

\* "insert into t (cols) values (...)": [err, rowid, db]
SqlInsert(d, t, values) ==
    LET rid == IF "id" \in DOMAIN values THEN values["id"].v
               ELSE NextRowId(d[t])
        row == [c \in db_cols(t) |->
                   IF c = "id" THEN DBInt(rid)
                   ELSE IF c \in DOMAIN values THEN values[c] ELSE DBNull]
    IN  IF UniqueClash(t, d[t], row)
        THEN [err |-> "unique", rowid |-> -1, db |-> d]
        ELSE IF FKDangling(d, t, row)
        THEN [err |-> "fk", rowid |-> -1, db |-> d]
        ELSE [err |-> "none", rowid |-> rid,
              db |-> [d EXCEPT ![t] = @ \cup {row}]]

\* "update t set cols where id = k": [err, db]
SqlUpdate(d, t, k, values) ==
    LET hit == {r \in d[t] : r["id"] = DBInt(k)}
    IN  IF hit = {} THEN [err |-> "none", db |-> d]
        ELSE
        LET old == CHOOSE r \in hit : TRUE
            new == [c \in db_cols(t) |->
                       IF c \in DOMAIN values THEN values[c] ELSE old[c]]
            d2 == [d EXCEPT ![t] = (@ \ {old}) \cup {new}]
        IN  IF UniqueClash(t, d[t] \ {old}, new)
            THEN [err |-> "unique", db |-> d]
            ELSE IF \/ FKDangling(d2, t, new)
                    \/ new["id"] # old["id"] /\ Referenced(d, t, k)
            THEN [err |-> "fk", db |-> d]
            ELSE [err |-> "none", db |-> d2]

\* rows of table c after the rows `gone` of table t were deleted:
\* "on delete cascade" drops the referencing row, "on delete set null"
\* clears the column
AfterParentDelete(c, rows, t, gone) ==
    LET fks == {f \in FieldNames(c) :
                  ORMField(c, f).kind = "fk" /\ ORMField(c, f).target = t}
        hits(r, f) == r[ORMField(c, f).db_name] # DBNull
                      /\ r[ORMField(c, f).db_name].v \in gone
        kept == {r \in rows :
                   ~ \E f \in fks : get_fk_def(c, f) = "cascade" /\ hits(r, f)}
    IN  {[col \in db_cols(c) |->
            IF \E f \in fks : /\ ORMField(c, f).db_name = col
                              /\ get_fk_def(c, f) = "set null"
                              /\ hits(r, f)
            THEN DBNull ELSE r[col]] : r \in kept}

\* "delete from t where id in gone": the database afterwards
SqlDelete(d, t, gone) ==
    [c \in Tables |->
        IF c = t THEN {r \in d[t] : r["id"].v \notin gone}
        ELSE AfterParentDelete(c, d[c], t, gone)]

\* ---------------------------------------------------------------- queries
\* DBCmpOp, as SQLite evaluates "col <op> ?": a NULL on either side is no match
CmpHolds(cmp, a, b) ==
    /\ a # DBNull
    /\ b # DBNull
    /\ CASE cmp = "eq"  -> a.v = b.v
         [] cmp = "lt"  -> a.v < b.v
         [] cmp = "lte" -> a.v <= b.v
         [] cmp = "gt"  -> a.v > b.v
         [] cmp = "gte" -> a.v >= b.v

\* rows of tbl matching every (col, cmp, value) of the filter
Matching(tbl, filter) ==
    {r \in tbl : \A k \in 1..Len(filter) :
                    CmpHolds(filter[k][2], r[filter[k][1]], filter[k][3])}

\* the rows of a set in rowid order, the order of an unordered table scan
RECURSIVE ByRowId(_)
ByRowId(rows) ==
    IF rows = {} THEN <<>>
    ELSE LET m == CHOOSE r \in rows : \A s \in rows : r["id"].v <= s["id"].v
         IN  <<m>> \o ByRowId(rows \ {m})

\* SQLite's order of two column values: NULL sorts before every number
ValLess(a, b) ==
    IF a = DBNull THEN b # DBNull
    ELSE IF b = DBNull THEN FALSE
    ELSE a.v < b.v

\* "order by c1 asc, c2 desc, ...": row r comes before row s (rows that tie
\* on every column come in rowid order)
RECURSIVE Before(_, _, _)
Before(order, r, s) ==
    IF order = <<>> THEN r["id"].v < s["id"].v
    ELSE LET col == order[1][1]
             asc == order[1][2] = "asc"
         IN  IF r[col] = s[col] THEN Before(Tail(order), r, s)
             ELSE IF asc THEN ValLess(r[col], s[col])
             ELSE ValLess(s[col], r[col])

\* the rows of a set in the order of an "order by" list
RECURSIVE Sorted(_, _)
Sorted(rows, order) ==
    IF rows = {} THEN <<>>
    ELSE LET m == CHOOSE r \in rows :
                     \A s \in rows \ {r} : Before(order, r, s)
         IN  <<m>> \o Sorted(rows \ {m}, order)

\* Database.select / _query_parts: where, order by, then limit and offset
\* (a negative limit is no limit, a negative offset is no offset)
select(d, q) ==
    LET all == IF q.order = <<>>
               THEN ByRowId(Matching(d[q.table_name], q.filter))
               ELSE Sorted(Matching(d[q.table_name], q.filter), q.order)
        from == IF q.offset >= 0 THEN q.offset + 1 ELSE 1
        upto == IF q.max_count >= 0 /\ from + q.max_count - 1 < Len(all)
                THEN from + q.max_count - 1 ELSE Len(all)
    IN  SubSeq(all, from, upto)

\* "select count(*) ...": the aggregate makes one result row holding the
\* number of matching rows, and limit and offset then apply to that one row
select_count(d, q) ==
    LET all == <<Cardinality(Matching(d[q.table_name], q.filter))>>
        from == IF q.offset >= 0 THEN q.offset + 1 ELSE 1
        upto == IF q.max_count >= 0 /\ from + q.max_count - 1 < Len(all)
                THEN from + q.max_count - 1 ELSE Len(all)
    IN  SubSeq(all, from, upto)

\* variant: the subquery of a DELETE leaves limit and offset out
delete_subquery_All(d, q) ==
    ByRowId(Matching(d[q.table_name], q.filter))

\* Database._delete_parts: "where rowid in (select rowid <query>)"
delete_subquery(d, q) == select(d, q)

\* ---------------------------------------------------------------- ORM
FreeObj == [cls |-> "free", attrs |-> EmptyMap, live |-> FALSE, db_id |-> -1,
            fk_ids |-> EmptyMap, modified |-> EmptyMap]

Allocated(os) == {i \in Slots : os[i].cls # "free"}

HasFree(os) == \E i \in Slots : os[i].cls = "free"

\* the slot the next instance goes to (0: none left)
FreeSlot(os) ==
    IF HasFree(os)
    THEN CHOOSE i \in Slots :
            os[i].cls = "free" /\ \A j \in Slots : j < i => os[j].cls # "free"
    ELSE 0

Ok(v) == [err |-> "none", val |-> v]
Err(e) == [err |-> e, val |-> DBNull]

\* variant: a pending change of the id is not looked at
check_has_id_Persisted(o) == o.db_id >= 0

\* TableDef.check_has_id: a stable identity in the database
check_has_id(o) == o.db_id >= 0 /\ "id" \notin DOMAIN o.modified

\* ORMField.convert_to_db with ORMValueField._convert_to_db (IdentityConverter
\* on an int) and ORMFKField._convert_to_db (the target's id)
convert_to_db(os, t, f, val) ==
    LET fo == ORMField(t, f)
    IN  IF val = PyNone
        THEN IF fo.nullable THEN Ok(DBNull) ELSE Err("ValueError: not nullable")
        ELSE IF fo.kind # "fk"
        THEN IF val.t = "int" THEN Ok(DBInt(val.v))
             ELSE Err("ValueError: wrong type")
        ELSE IF val.t # "obj" THEN Err("ValueError: wrong type")
        ELSE IF os[val.v].cls # fo.target THEN Err("ValueError: wrong type")
        ELSE IF ~ os[val.v].live THEN Err("AttributeError")
        ELSE IF ~ check_has_id(os[val.v])
        THEN Err("ValueError: unsaved object")
        ELSE Ok(DBInt(os[val.v].attrs["id"].v))

\* variant: without the None shortcut a NULL foreign key column leaves the
\* slot unset like any other foreign key, with nothing pending
convert_to_py_and_set_NoNull(t, f, value) ==
    IF ORMField(t, f).kind = "fk"
    THEN [attr |-> Unset, pending |-> value # DBNull]
    ELSE IF value = DBNull THEN [attr |-> PyNone, pending |-> FALSE]
    ELSE [attr |-> PyInt(value.v), pending |-> FALSE]

\* ORMField.convert_to_py_and_set: a NULL column sets the attribute to None
\* (value or foreign key alike); ORMValueField sets the converted value;
\* ORMFKField leaves the slot unset and records the id in fk_ids
convert_to_py_and_set(t, f, value) ==
    IF value = DBNull THEN [attr |-> PyNone, pending |-> FALSE]
    ELSE IF ORMField(t, f).kind = "fk" THEN [attr |-> Unset, pending |-> TRUE]
    ELSE [attr |-> PyInt(value.v), pending |-> FALSE]

\* TableDef._obj_from_db
obj_from_db(t, row) ==
    LET conv(f) == convert_to_py_and_set(t, f, row[ORMField(t, f).db_name])
        fk == {f \in FieldNames(t) : conv(f).pending}
    IN  [cls |-> t,
         attrs |-> [f \in FieldNames(t) |-> conv(f).attr],
         live |-> TRUE,
         db_id |-> row["id"].v,
         fk_ids |-> [f \in fk |-> row[ORMField(t, f).db_name].v],
         modified |-> EmptyMap]

\* variant: every field but id starts as None, default producer or not
init_empty_obj_AllNone(t) ==
    [cls |-> t,
     attrs |-> [f \in FieldNames(t) |-> IF f = "id" THEN Unset ELSE PyNone],
     live |-> TRUE,
     db_id |-> -1,
     fk_ids |-> EmptyMap,
     modified |-> [c \in db_cols(t) \ {"id"} |-> DBNull]]

\* TableDef.init_empty_obj: only the fields with a default producer are set
init_empty_obj(t) ==
    LET dflt == {f \in FieldNames(t) : ORMField(t, f).factory}
    IN  [cls |-> t,
         attrs |-> [f \in FieldNames(t) |-> IF f \in dflt THEN PyNone ELSE Unset],
         live |-> TRUE,
         db_id |-> -1,
         fk_ids |-> EmptyMap,
         modified |-> [c \in {ORMField(t, f).db_name : f \in dflt} |-> DBNull]]

\* Database.exec_raw: "cursor.lastrowid or -1"
exec_raw(lastrowid) == IF lastrowid = 0 THEN -1 ELSE lastrowid

\* result of an operation: how it ended, the instances and database it
\* leaves, the statements it issued, the value it returned
Res(e, os, d, stmts, ret) ==
    [err |-> e, objs |-> os, db |-> d, log |-> stmts, ret |-> ret]

\* the field, if any, that save_obj finds without a value
Missing(o) == {f \in FieldNames(o.cls) :
                 f # "id" /\ ORMField(o.cls, f).db_name \notin DOMAIN o.modified}

\* save_obj: "to_create = props.db_id < 0"
to_create(o) == o.db_id < 0

\* variant: the early return taken for unpersisted instances instead
NothingToDo_Create(o) == o.modified = EmptyMap /\ to_create(o)

\* save_obj: "if not modified and not to_create: return"
NothingToDo(o) == o.modified = EmptyMap /\ ~ to_create(o)

\* variant: update_equal keyed by the id attribute rather than props.db_id
UpdateKey_Attr(o) ==
    IF "id" \in DOMAIN o.modified THEN o.modified["id"].v ELSE o.db_id

\* save_obj: the identity update_equal is keyed by
UpdateKey(o) == o.db_id

\* save_obj wraps insert: DBUniqueError is re-raised as obj_class.AlreadyExists
InsertUniqueError == "AlreadyExists"

\* save_obj does not wrap update_equal: its DBUniqueError gets out as it is
UpdateUniqueError == "DBUniqueError"

\* save_obj after insert returned: id and db_id take the returned value
AfterInsert(o, new_db_id) ==
    [o EXCEPT !.attrs["id"] = PyInt(new_db_id),
              !.db_id = new_db_id,
              !.modified = EmptyMap]

\* variant: the assigned id is not adopted as the persisted identity
AfterUpdate_KeepId(o) == [o EXCEPT !.modified = EmptyMap]

\* save_obj after update_equal returned: "new_db_id = modified.get('id')"
AfterUpdate(o) ==
    [o EXCEPT !.db_id = IF "id" \in DOMAIN o.modified
                        THEN o.modified["id"].v ELSE @,
              !.modified = EmptyMap]

\* variant: the dirty map is cleared before the statement is sent
AfterFailedSave_Cleared(o) == [o EXCEPT !.modified = EmptyMap]

\* save_obj when insert or update_equal raised: nothing was assigned yet
AfterFailedSave(o) == o

\* TableDef.save_obj (with TableDef._get_props, Database.insert and
\* Database.update_equal)
save_obj(os, d, i) ==
    LET o == os[i]
        failed == [os EXCEPT ![i] = AfterFailedSave(o)]
    IN  IF ~ o.live THEN Res("ValueError: deleted", os, d, <<>>, Unset)
        ELSE IF NothingToDo(o) THEN Res("none", os, d, <<>>, Unset)
        ELSE IF to_create(o)
        THEN IF Missing(o) # {}
             THEN Res("ValueError: no value set", os, d, <<>>, Unset)
             ELSE
             LET r == SqlInsert(d, o.cls, o.modified)
                 stmt == [op |-> "insert", table |-> o.cls, values |-> o.modified]
             IN  IF r.err = "unique"
                 THEN Res(InsertUniqueError, failed, d, <<stmt>>, Unset)
                 ELSE IF r.err = "fk"
                 THEN Res("IntegrityError", failed, d, <<stmt>>, Unset)
                 ELSE Res("none",
                          [os EXCEPT ![i] = AfterInsert(o, exec_raw(r.rowid))],
                          r.db, <<stmt>>, Unset)
        ELSE
        LET r == SqlUpdate(d, o.cls, UpdateKey(o), o.modified)
            stmt == [op |-> "update", table |-> o.cls, id |-> UpdateKey(o),
                     values |-> o.modified]
        IN  IF r.err = "unique"
            THEN Res(UpdateUniqueError, failed, d, <<stmt>>, Unset)
            ELSE IF r.err = "fk"
            THEN Res("IntegrityError", failed, d, <<stmt>>, Unset)
            ELSE Res("none", [os EXCEPT ![i] = AfterUpdate(o)],
                     r.db, <<stmt>>, Unset)

\* variant: the dirty map is keyed by the field name
dirty_key_FieldName(t, key) == key

\* handle_obj_assign: "modified[field_obj.db_name] = field_db_val"
dirty_key(t, key) == ORMField(t, key).db_name

\* DBObject.__setattr__: TableDef.handle_obj_assign, then the slot is set
handle_obj_assign(os, d, i, key, val) ==
    LET o == os[i]
    IN  IF key = "id" /\ val.t # "int"
        THEN Res("TypeError", os, d, <<>>, Unset)
        ELSE IF key = "id" /\ val.v < 0
        THEN Res("ValueError: negative id", os, d, <<>>, Unset)
        ELSE IF ~ o.live THEN Res("ValueError: deleted", os, d, <<>>, Unset)
        ELSE IF key \notin FieldNames(o.cls)
        THEN Res("AttributeError", os, d, <<>>, Unset)
        ELSE
        LET c == convert_to_db(os, o.cls, key, val)
        IN  IF c.err # "none" THEN Res(c.err, os, d, <<>>, Unset)
            ELSE Res("none",
                     [os EXCEPT ![i].modified =
                                    Put(@, dirty_key(o.cls, key), c.val),
                                ![i].attrs[key] = val],
                     d, <<>>, Unset)

\* variant: delete_obj without the check for pending changes
DeleteRefused_Never(o) == FALSE

\* delete_obj: "if props.modified: raise ValueError"
DeleteRefused(o) == o.modified # EmptyMap

\* variant: delete_obj leaves _db_props on the instance
Invalidate_Keep(o) == o

\* delete_obj: "object.__delattr__(obj, '_db_props')"; the slots stay
Invalidate(o) ==
    [o EXCEPT !.live = FALSE, !.db_id = -1, !.fk_ids = EmptyMap,
              !.modified = EmptyMap]

\* TableDef.delete_obj (with Database.delete_equal)
delete_obj(os, d, i) ==
    LET o == os[i]
    IN  IF ~ o.live THEN Res("ValueError: deleted", os, d, <<>>, Unset)
        ELSE IF DeleteRefused(o)
        THEN Res("ValueError: modified", os, d, <<>>, Unset)
        ELSE IF o.db_id < 0 THEN Res("AssertionError", os, d, <<>>, Unset)
        ELSE Res("none", [os EXCEPT ![i] = Invalidate(o)],
                 SqlDelete(d, o.cls, {o.db_id}),
                 <<[op |-> "delete_equal", table |-> o.cls, id |-> o.db_id]>>,
                 Unset)

\* TableDef._build_query for a get_one(id=k) / get_all(...) keyword filter
DBQuery(t, filter, order, offset, max_count) ==
    [table_name |-> t, filter |-> filter, order |-> order, offset |-> offset,
     max_count |-> max_count]

\* DBObject.get_one over a built query: the single matching row as a new
\* instance in slot k
get_one(os, d, q, k) ==
    LET rows == select(d, q)
        stmt == [op |-> "select", query |-> q]
    IN  IF Len(rows) = 0
        THEN Res("KeyError: no items", os, d, <<stmt>>, Unset)
        ELSE IF Len(rows) > 1
        THEN Res("ValueError: multiple items", os, d, <<stmt>>, Unset)
        ELSE Res("none", [os EXCEPT ![k] = obj_from_db(q.table_name, rows[1])],
                 d, <<stmt>>, PyObj(k))

\* variant: resolve_fk returns the fetched instance without storing it
CacheFK_None(o, key, k) == o

\* resolve_fk: "object.__setattr__(obj, field_name, fk_obj)"
CacheFK(o, key, k) == [o EXCEPT !.attrs[key] = PyObj(k)]

\* DBObject.__getattr__ / TableDef.resolve_fk, reached when the slot is unset
resolve_fk(os, d, i, key) ==
    LET o == os[i]
    IN  IF key \notin FieldNames(o.cls)
        THEN Res("AttributeError", os, d, <<>>, Unset)
        ELSE IF ~ o.live THEN Res("ValueError: deleted", os, d, <<>>, Unset)
        ELSE IF ORMField(o.cls, key).kind # "fk"
        THEN Res("AssertionError", os, d, <<>>, Unset)
        ELSE IF key \notin DOMAIN o.fk_ids
        THEN Res("KeyError: fk_ids", os, d, <<>>, Unset)
        ELSE
        LET k == FreeSlot(os)
            g == get_one(os, d, DBQuery(ORMField(o.cls, key).target,
                                <<<<"id", "eq", DBInt(o.fk_ids[key])>>>>, <<>>, -1, -1), k)
        IN  IF g.err # "none" THEN g
            ELSE Res("none", [g.objs EXCEPT ![i] = CacheFK(o, key, k)],
                     d, g.log, PyObj(k))

\* variant: a slot that is unset and has no pending id reads as None
getattr_NoneIfUnset(os, d, i, key) ==
    IF key \in DOMAIN os[i].attrs /\ os[i].attrs[key] # Unset
    THEN Res("none", os, d, <<>>, os[i].attrs[key])
    ELSE IF os[i].live /\ key \in DOMAIN os[i].attrs
                       /\ key \notin DOMAIN os[i].fk_ids
    THEN Res("none", os, d, <<>>, PyNone)
    ELSE resolve_fk(os, d, i, key)

\* variant: a pending id is resolved even when the slot is set
getattr_PendingFirst(os, d, i, key) ==
    IF os[i].live /\ key \in DOMAIN os[i].fk_ids
    THEN resolve_fk(os, d, i, key)
    ELSE IF key \in DOMAIN os[i].attrs /\ os[i].attrs[key] # Unset
    THEN Res("none", os, d, <<>>, os[i].attrs[key])
    ELSE resolve_fk(os, d, i, key)

\* reading obj.key: the slot if it is set, __getattr__ otherwise
getattr(os, d, i, key) ==
    IF key \in DOMAIN os[i].attrs /\ os[i].attrs[key] # Unset
    THEN Res("none", os, d, <<>>, os[i].attrs[key])
    ELSE resolve_fk(os, d, i, key)

\* reading obj.key would put a fetched instance in a new slot
Fetches(os, d, i, key) ==
    /\ key \in DOMAIN os[i].attrs
    /\ os[i].attrs[key] = Unset
    /\ os[i].live
    /\ key \in DOMAIN os[i].fk_ids
    /\ os[i].fk_ids[key] \in RowIds(d[ORMField(os[i].cls, key).target])

\* TableDef.delete_matching (with Database.delete_matching)
delete_matching(os, d, q) ==
    LET rows == delete_subquery(d, q)
    IN  Res("none", os,
            SqlDelete(d, q.table_name,
                      {rows[k]["id"].v : k \in 1..Len(rows)}),
            <<[op |-> "delete_matching", query |-> q]>>, Unset)

\* ---------------------------------------------------------------- init
WellFormed(d) ==
    /\ \A t \in Tables : \A r, s \in d[t] :
          (r # s) => /\ r["id"] # s["id"]
                     /\ ~ UniqueClash(t, {s}, r)
    /\ \A t \in Tables : \A r \in d[t] : ~ FKDangling(d, t, r)

\* the databases a run can start from: a new file, or what earlier runs left
EmptyDB == [t \in Tables |-> {}]

UsedDB ==
    [t \in Tables |->
        IF t = "parent"
        THEN {[id |-> DBInt(1), uval |-> DBInt(1)],
              [id |-> DBInt(2), uval |-> DBInt(2)]}
        ELSE {[id |-> DBInt(1), ref_id |-> DBInt(1), opt_id |-> DBNull],
              [id |-> DBInt(2), ref_id |-> DBInt(2), opt_id |-> DBInt(1)]}]

InitDBs == {EmptyDB, UsedDB}

Init ==
    /\ db \in InitDBs
    /\ objs = [i \in Slots |-> FreeObj]
    /\ log = <<>>
    /\ last = [op |-> "none", i |-> 0, key |-> "", val |-> Unset,
               err |-> "none", ret |-> Unset]
    /\ nops = 0
    /\ queries = <<>>
    /\ heap = <<>>
    /\ threads = <<>>
    /\ dbase = <<>>
    /\ tdef = <<>>

\* ---------------------------------------------------------------- actions
\* the operation ended as r says
Done(name, i, key, val, r) ==
    /\ RowIds(r.db["parent"]) \cup RowIds(r.db["child"]) \subseteq Ids
    /\ db' = r.db
    /\ objs' = r.objs
    /\ log' = r.log
    /\ last' = [op |-> name, i |-> i, key |-> key, val |-> val,
                err |-> r.err, ret |-> r.ret]
    /\ nops' = nops + 1
    /\ UNCHANGED <<queries, heap, threads, dbase, tdef>>

\* the run has operations left
CanStep == nops < MaxOps

\* values a caller may assign to a field
AssignVals(os, key) ==
    IF key = "id" THEN {PyInt(k) : k \in {-1} \cup Ids} \cup {PyNone}
    ELSE IF key = "uval" THEN {PyInt(v) : v \in Vals} \cup {PyNone, PyStr}
    ELSE {PyObj(j) : j \in Allocated(os)} \cup {PyNone, PyStr}

\* obj = Cls.new_empty()
NewEmpty ==
    /\ CanStep
    /\ \E t \in Tables :
           /\ HasFree(objs)
           /\ Done("new_empty", FreeSlot(objs), "", Unset,
                   Res("none", [objs EXCEPT ![FreeSlot(objs)] = init_empty_obj(t)],
                       db, <<>>, PyObj(FreeSlot(objs))))

\* obj = Cls.get_one(id=k)
GetOne ==
    /\ CanStep
    /\ \E t \in Tables, k \in Ids :
           /\ k \in RowIds(db[t]) => HasFree(objs)
           /\ Done("get_one", FreeSlot(objs), "", PyInt(k),
                   get_one(objs, db, DBQuery(t, <<<<"id", "eq", DBInt(k)>>>>, <<>>, -1, -1),
                           FreeSlot(objs)))

\* obj.key = val
Assign ==
    /\ CanStep
    /\ \E i \in Allocated(objs) :
           \E key \in FieldNames(objs[i].cls) :
               \E val \in AssignVals(objs, key) :
                   Done("assign", i, key, val,
                        handle_obj_assign(objs, db, i, key, val))

\* obj.save()
Save ==
    /\ CanStep
    /\ \E i \in Allocated(objs) : Done("save", i, "", Unset, save_obj(objs, db, i))

\* obj.delete()
Delete ==
    /\ CanStep
    /\ \E i \in Allocated(objs) :
           Done("delete", i, "", Unset, delete_obj(objs, db, i))

\* obj.key
Read ==
    /\ CanStep
    /\ \E i \in Allocated(objs) :
           \E key \in FieldNames(objs[i].cls) :
               /\ Fetches(objs, db, i, key) => HasFree(objs)
               /\ Done("read", i, key, Unset, getattr(objs, db, i, key))

\* Cls.get_all(...).delete()
QueryDelete ==
    /\ CanStep
    /\ \E t \in Tables :
           \E filter \in {<<>>} \cup {<<<<"id", "eq", DBInt(k)>>>> : k \in Ids} :
               Done("query_delete", 0, "", Unset,
                    delete_matching(objs, db, DBQuery(t, filter, <<>>, -1, -1)))

Next ==
    \/ NewEmpty
    \/ GetOne
    \/ Assign
    \/ Save
    \/ Delete
    \/ Read
    \/ QueryDelete

Spec == Init /\ [][Next]_vars

\* ---------------------------------------------------------------- properties
\* the step just taken was operation `name` on the instance in slot i
Did(name, i) == last'.op = name /\ last'.i = i

IsDeleted(o) == o.cls # "free" /\ ~ o.live

\* save() on instance i sends a statement that SQLite rejects on a unique
\* column
SaveHitsUnique(os, d, i) ==
    /\ os[i].live
    /\ ~ NothingToDo(os[i])
    /\ IF to_create(os[i])
       THEN /\ Missing(os[i]) = {}
            /\ SqlInsert(d, os[i].cls, os[i].modified).err = "unique"
       ELSE SqlUpdate(d, os[i].cls, os[i].db_id, os[i].modified).err = "unique"

\* C1: save() on an unpersisted instance fails with 'no value set' and no
\* statement when a non-identity field has no dirty entry; otherwise it issues
\* exactly one INSERT carrying the whole dirty map and, when the insert
\* succeeds, id and persisted identity both become the identity (>= 0) of the
\* inserted row and the dirty map is emptied.
C1_SaveUnpersisted ==
    [][\A i \in Slots :
         (Did("save", i) /\ objs[i].live /\ objs[i].db_id < 0) =>
            IF Missing(objs[i]) # {}
            THEN last'.err = "ValueError: no value set" /\ log' = <<>>
            ELSE /\ log' = <<[op |-> "insert", table |-> objs[i].cls,
                              values |-> objs[i].modified]>>
                 /\ (last'.err = "none") =>
                       /\ objs'[i].db_id >= 0
                       /\ objs'[i].attrs["id"] = PyInt(objs'[i].db_id)
                       /\ \E r \in db'[objs[i].cls] \ db[objs[i].cls] :
                             r["id"] = DBInt(objs'[i].db_id)
                       /\ objs'[i].modified = EmptyMap]_vars

\* C2: save() on a persisted instance with a non-empty dirty map issues
\* exactly one UPDATE keyed by the persisted identity held before the call,
\* whose SET list is the dirty map; the dirty map of a persisted instance
\* grows only by the column of a successful assignment and is emptied only by
\* a successful save, so it holds exactly the columns assigned since the last
\* successful save. After a successful save the dirty map is empty and the
\* persisted identity is the assigned id if id was dirty, unchanged otherwise.
C2_SavePersistedDirty ==
    [][\A i \in Slots :
         /\ (/\ Did("save", i)
             /\ objs[i].live
             /\ objs[i].db_id >= 0
             /\ objs[i].modified # EmptyMap) =>
               /\ log' = <<[op |-> "update", table |-> objs[i].cls,
                            id |-> objs[i].db_id,
                            values |-> objs[i].modified]>>
               /\ (last'.err = "none") =>
                     /\ objs'[i].modified = EmptyMap
                     /\ objs'[i].db_id =
                           IF "id" \in DOMAIN objs[i].modified
                           THEN objs[i].modified["id"].v ELSE objs[i].db_id
         /\ (objs[i].live /\ objs[i].db_id >= 0 /\ objs'[i].live) =>
               IF Did("assign", i) /\ last'.err = "none"
               THEN DOMAIN objs'[i].modified =
                       DOMAIN objs[i].modified
                          \cup {ORMField(objs[i].cls, last'.key).db_name}
               ELSE IF Did("save", i) /\ last'.err = "none"
               THEN objs'[i].modified = EmptyMap
               ELSE objs'[i].modified = objs[i].modified]_vars

\* an UPDATE that moved the row to a newly assigned id has succeeded
C2_Witness ==
    /\ last.op = "save"
    /\ last.err = "none"
    /\ Len(log) = 1
    /\ log[1].op = "update"
    /\ "id" \in DOMAIN log[1].values
    /\ log[1].values["id"].v # log[1].id
    /\ objs[last.i].db_id = log[1].values["id"].v

\* C3 as claimed: save() on a clean persisted instance issues no statement
\* and changes nothing, and any two consecutive save() calls on an instance
\* issue at most one statement between them.
C3_SaveIdempotent ==
    [][\A i \in Slots :
         Did("save", i) =>
            /\ (objs[i].live /\ objs[i].db_id >= 0
                    /\ objs[i].modified = EmptyMap) =>
                  /\ log' = <<>>
                  /\ last'.err = "none"
                  /\ objs' = objs
                  /\ db' = db
            /\ (last.op = "save" /\ last.i = i) =>
                  Len(log) + Len(log') <= 1]_vars

\* C3 amended: the same, for two consecutive save() calls the first of which
\* succeeded (a save that failed is sent again by the next one).
C3_SaveIdempotentAfterSuccess ==
    [][\A i \in Slots :
         Did("save", i) =>
            /\ (objs[i].live /\ objs[i].db_id >= 0
                    /\ objs[i].modified = EmptyMap) =>
                  /\ log' = <<>>
                  /\ last'.err = "none"
                  /\ objs' = objs
                  /\ db' = db
            /\ (last.op = "save" /\ last.i = i /\ last.err = "none") =>
                  Len(log) + Len(log') <= 1]_vars

\* a save() of a clean persisted instance has been a no-op
C3_Witness ==
    /\ last.op = "save"
    /\ last.err = "none"
    /\ log = <<>>
    /\ objs[last.i].db_id >= 0
    /\ nops >= 3

\* C4: a save() that hits a uniqueness violation raises AlreadyExists,
\* whether it inserts or updates.
C4_UniqueRaisesAlreadyExists ==
    [][\A i \in Slots :
         (Did("save", i) /\ SaveHitsUnique(objs, db, i)) =>
            last'.err = "AlreadyExists"]_vars

\* C5: a save() that fails on a uniqueness violation leaves the persisted
\* identity and the dirty map (and the rest of the instance, and the
\* database) as they were, so the next save() sends the same statement.
C5_FailedSaveKeepsState ==
    [][\A i \in Slots :
         (Did("save", i) /\ SaveHitsUnique(objs, db, i)) =>
            /\ last'.err # "none"
            /\ objs'[i].db_id = objs[i].db_id
            /\ objs'[i].modified = objs[i].modified
            /\ objs'[i].live
            /\ objs' = objs
            /\ db' = db
            /\ save_obj(objs', db', i).log = log']_vars

\* an UPDATE of a persisted instance has failed on a unique column
C5_Witness ==
    /\ last.op = "save"
    /\ last.err \in {"AlreadyExists", "DBUniqueError"}
    /\ objs[last.i].db_id >= 0
    /\ objs[last.i].modified # EmptyMap
    /\ Len(log) = 1

\* the storage form of the in-memory value of field f of instance i
StorageForm(os, i, f) ==
    LET a == os[i].attrs[f]
    IN  IF a = Unset
        THEN IF f \in DOMAIN os[i].fk_ids THEN DBInt(os[i].fk_ids[f]) ELSE Unset
        ELSE IF a = PyNone THEN DBNull
        ELSE IF a.t = "obj" THEN os[a.v].attrs["id"]
        ELSE a

\* instance i matches the stored row
Matches(os, d, i) ==
    \E r \in d[os[i].cls] :
        /\ r["id"] = DBInt(os[i].db_id)
        /\ \A f \in FieldNames(os[i].cls) :
              r[ORMField(os[i].cls, f).db_name] = StorageForm(os, i, f)

\* C6 as claimed: in every reachable state an instance with an empty dirty
\* map and a persisted identity >= 0 matches the stored row.
C6_CleanMatchesRow ==
    \A i \in Slots :
        (objs[i].live /\ objs[i].modified = EmptyMap /\ objs[i].db_id >= 0) =>
            Matches(objs, db, i)

\* C6 amended: the match holds when it is made, not ever after. An instance
\* just loaded matches its row field by field; right after a successful
\* save() that inserted the row or updated an existing row, a row with the
\* persisted identity (when it is >= 0) exists and holds every value of the
\* dirty map that was sent.
C6_MatchesWhenLoadedOrSaved ==
    [][\A i \in Slots :
         /\ (objs[i].cls = "free" /\ objs'[i].cls # "free"
                /\ objs'[i].db_id >= 0) =>
               Matches(objs', db', i)
         /\ (/\ Did("save", i)
             /\ last'.err = "none"
             /\ log' # <<>>
             /\ objs'[i].db_id >= 0
             /\ \/ to_create(objs[i])
                \/ objs[i].db_id \in RowIds(db[objs[i].cls])) =>
               \E r \in db'[objs[i].cls] :
                   /\ r["id"] = DBInt(objs'[i].db_id)
                   /\ \A c \in DOMAIN objs[i].modified :
                         r[c] = objs[i].modified[c]]_vars

\* an UPDATE has just rewritten the id of an existing row
C6_Witness ==
    /\ last.op = "save"
    /\ last.err = "none"
    /\ Len(log) = 1
    /\ log[1].op = "update"
    /\ "id" \in DOMAIN log[1].values
    /\ log[1].values["id"].v # log[1].id
    /\ objs[last.i].db_id \in RowIds(db[objs[last.i].cls])
    /\ log[1].id \notin RowIds(db[objs[last.i].cls])

\* C7: delete() on an instance with a non-empty dirty map raises, issues no
\* statement and leaves the instance valid with its dirty map and persisted
\* identity unchanged.
C7_DeleteDirtyRefused ==
    [][\A i \in Slots :
         (Did("delete", i) /\ objs[i].live
                /\ objs[i].modified # EmptyMap) =>
            /\ last'.err = "ValueError: modified"
            /\ log' = <<>>
            /\ objs'[i].live
            /\ objs'[i].modified = objs[i].modified
            /\ objs'[i].db_id = objs[i].db_id
            /\ db' = db]_vars

\* delete() of a persisted instance with pending changes has been refused
C7_Witness ==
    /\ last.op = "delete"
    /\ last.err = "ValueError: modified"
    /\ objs[last.i].db_id >= 0
    /\ objs[last.i].modified # EmptyMap

\* delete() on a clean persisted instance: one row delete keyed by the
\* persisted identity, and the instance is invalidated for good
DeleteInvalidates(i) ==
    /\ (Did("delete", i) /\ objs[i].live /\ objs[i].modified = EmptyMap
            /\ objs[i].db_id >= 0) =>
          /\ log' = <<[op |-> "delete_equal", table |-> objs[i].cls,
                       id |-> objs[i].db_id]>>
          /\ last'.err = "none"
          /\ IsDeleted(objs'[i])
    /\ IsDeleted(objs[i]) => IsDeleted(objs'[i])
    /\ (IsDeleted(objs[i]) /\ (Did("assign", i) \/ Did("delete", i))) =>
          /\ log' = <<>>
          /\ last'.err # "none"
          /\ objs' = objs
          /\ db' = db

\* C8 as claimed: after delete() of a clean persisted instance, every field
\* assignment and every further delete() on it fails with the 'record was
\* deleted' error and issues no statement.
C8_DeletedRejectsAll ==
    [][\A i \in Slots :
         /\ DeleteInvalidates(i)
         /\ (IsDeleted(objs[i]) /\ (Did("assign", i) \/ Did("delete", i))) =>
               last'.err = "ValueError: deleted"]_vars

\* C8 amended: every assignment and every further delete() fails and issues
\* no statement; the error is 'record was deleted', except that an id value
\* that is negative or not an integer is rejected as such first.
C8_DeletedRejectsAllButBadId ==
    [][\A i \in Slots :
         /\ DeleteInvalidates(i)
         /\ (IsDeleted(objs[i]) /\ Did("delete", i)) =>
               last'.err = "ValueError: deleted"
         /\ (IsDeleted(objs[i]) /\ Did("assign", i)) =>
               IF last'.key = "id" /\ last'.val.t # "int"
               THEN last'.err = "TypeError"
               ELSE IF last'.key = "id" /\ last'.val.v < 0
               THEN last'.err = "ValueError: negative id"
               ELSE last'.err = "ValueError: deleted"]_vars

\* an assignment to a deleted instance has just been refused
C8_Witness ==
    /\ last.op = "assign"
    /\ last.err = "ValueError: deleted"
    /\ IsDeleted(objs[last.i])

\* the foreign key attribute is still pending: slot unset, id in fk_ids
Unresolved(o, key) ==
    /\ o.live
    /\ key \in DOMAIN o.attrs
    /\ o.attrs[key] = Unset
    /\ key \in DOMAIN o.fk_ids

\* the fetch resolve_fk issues: the target type filtered by id = pending id
FetchOf(o, key) ==
    [op |-> "select",
     query |-> DBQuery(ORMField(o.cls, key).target,
                       <<<<"id", "eq", DBInt(o.fk_ids[key])>>>>, <<>>, -1, -1)]

\* a read of an attribute that holds an instance returns it without a query
CachedRead(i) ==
    (last'.op = "read" /\ last'.i = i /\ objs[i].attrs[last'.key].t = "obj") =>
        /\ log' = <<>>
        /\ last'.err = "none"
        /\ last'.ret = objs[i].attrs[last'.key]
        /\ objs' = objs

\* C9 as claimed: the first read of a pending foreign key issues exactly one
\* fetch by id = pending id and leaves the instance cached, so that every
\* later read returns it without a query.
C9_FirstReadCaches ==
    [][\A i \in Slots :
         /\ (last'.op = "read" /\ last'.i = i
                /\ Unresolved(objs[i], last'.key)) =>
               /\ log' = <<FetchOf(objs[i], last'.key)>>
               /\ objs'[i].attrs[last'.key].t = "obj"
               /\ last'.ret = objs'[i].attrs[last'.key]
         /\ CachedRead(i)]_vars

\* C9 amended: a read of a pending foreign key on a loaded, not deleted
\* instance issues exactly one fetch by id = pending id; if the target row is
\* found it is cached and every later read returns the identical instance
\* without a query; if it is not found the read raises not-found and caches
\* nothing.
C9_FirstReadCachesIfFound ==
    [][\A i \in Slots :
         /\ (last'.op = "read" /\ last'.i = i
                /\ Unresolved(objs[i], last'.key)) =>
               /\ log' = <<FetchOf(objs[i], last'.key)>>
               /\ db' = db
               /\ IF objs[i].fk_ids[last'.key]
                        \in RowIds(db[ORMField(objs[i].cls, last'.key).target])
                  THEN /\ last'.err = "none"
                       /\ last'.ret.t = "obj"
                       /\ objs'[i].attrs[last'.key] = last'.ret
                       /\ objs[last'.ret.v].cls = "free"
                       /\ objs'[last'.ret.v].db_id = objs[i].fk_ids[last'.key]
                       /\ objs'[last'.ret.v].cls =
                             ORMField(objs[i].cls, last'.key).target
                  ELSE /\ last'.err = "KeyError: no items"
                       /\ objs' = objs
         /\ CachedRead(i)]_vars

\* a second read has returned the instance the first read fetched
C9_Witness ==
    /\ last.op = "read"
    /\ last.err = "none"
    /\ log = <<>>
    /\ last.ret.t = "obj"
    /\ last.key \in DOMAIN objs[last.i].fk_ids
    /\ objs[last.ret.v].db_id = objs[last.i].fk_ids[last.key]
    /\ objs[last.i].modified = EmptyMap

\* C10: a nullable foreign key whose stored column is NULL is loaded as None
\* with no pending id, and reading it returns None without a query, the
\* first time and every time after.
C10_NullFKNeverFetched ==
    [][\A i \in Slots :
         /\ (objs[i].cls = "free" /\ objs'[i].cls # "free"
                /\ objs'[i].db_id >= 0) =>
               \A r \in db[objs'[i].cls] : \A f \in FieldNames(objs'[i].cls) :
                   (/\ r["id"] = DBInt(objs'[i].db_id)
                    /\ ORMField(objs'[i].cls, f).kind = "fk"
                    /\ r[ORMField(objs'[i].cls, f).db_name] = DBNull) =>
                       /\ objs'[i].attrs[f] = PyNone
                       /\ f \notin DOMAIN objs'[i].fk_ids
         /\ (/\ last'.op = "read"
             /\ last'.i = i
             /\ ORMField(objs[i].cls, last'.key).kind = "fk"
             /\ objs[i].attrs[last'.key] = PyNone) =>
               /\ last'.ret = PyNone
               /\ last'.err = "none"
               /\ log' = <<>>
               /\ objs' = objs
               /\ db' = db]_vars

\* the NULL foreign key of a loaded instance has been read
C10_Witness ==
    /\ last.op = "read"
    /\ last.key = "opt"
    /\ last.ret = PyNone
    /\ log = <<>>
    /\ objs[last.i].live
    /\ objs[last.i].db_id >= 0
    /\ objs[last.i].modified = EmptyMap
    /\ \E r \in db["child"] : /\ r["id"] = DBInt(objs[last.i].db_id)
                              /\ r["opt_id"] = DBNull

\* ------------------------------------------------------ Query descriptors
\* A keyword of filter()/get_all() is the sequence of its parts between
\* "__": <<"uval">> is uval, <<"uval", "lt">> is uval__lt. A dict is the
\* sequence of its <<key, value>> items in insertion order.
DictKeys(m) == {m[k][1] : k \in 1..Len(m)}

DictGet(m, key) == (CHOOSE k \in 1..Len(m) : m[k][1] = key)

\* dict.update: a key already there keeps its place and takes the new value,
\* a new key goes to the end
RECURSIVE DictUpdate(_, _)
DictUpdate(m, added) ==
    IF added = <<>> THEN m
    ELSE LET key == added[1][1]
             m2 == IF key \in DictKeys(m)
                   THEN [m EXCEPT ![DictGet(m, key)] = added[1]]
                   ELSE Append(m, added[1])
         IN  DictUpdate(m2, Tail(added))

\* a new object on the heap: the heap afterwards and the object's address
Alloc(h, v) == [heap |-> Append(h, v), addr |-> Len(h) + 1]

\* Query (frozen dataclass): where and order are references
Query(t, where, order, limit, offset) ==
    [target_def |-> t, where |-> where, order |-> order, limit |-> limit,
     offset |-> offset]

NoQuery == [target_def |-> "none"]

\* result of a refinement: how it ended, the heap, the descriptor returned
QRes(e, h, q) == [err |-> e, heap |-> h, query |-> q]

\* DBObject.get_all: Query(cls._table_def, kwargs), order from the default
\* factory
get_all(h, t, kwargs) ==
    LET w == Alloc(h, kwargs)
        o == Alloc(w.heap, <<>>)
    IN  QRes("none", o.heap, Query(t, w.addr, o.addr, -1, -1))

\* variant: the added conditions are written into the dict of self
new_where_InPlace(h, q) == [heap |-> h, addr |-> q.where]

\* Query.filter: "new_where = self.where.copy()"
new_where(h, q) == Alloc(h, h[q.where])

\* variant: keywords are compared by field name, without the comparator
common_ByField(where, added_filter) ==
    {a \in DictKeys(where) :
        \E b \in DictKeys(added_filter) : a[1] = b[1]}

\* Query.filter: "common = self.where.keys() & added_filter.keys()"
common(where, added_filter) == DictKeys(where) \cap DictKeys(added_filter)

\* Query.filter
filter(h, q, added_filter) ==
    IF common(h[q.where], added_filter) # {}
    THEN QRes("ValueError: already filtered", h, NoQuery)
    ELSE LET n == new_where(h, q)
         IN  QRes("none",
                  [n.heap EXCEPT ![n.addr] = DictUpdate(@, added_filter)],
                  Query(q.target_def, n.addr, q.order, q.limit, q.offset))

\* Query.order_by: "new_order = self.order.copy()"
new_order(h, q) == Alloc(h, h[q.order])

\* Query.order_by
order_by(h, q, added_order) ==
    LET n == new_order(h, q)
    IN  QRes("none", [n.heap EXCEPT ![n.addr] = @ \o added_order],
             Query(q.target_def, q.where, n.addr, q.limit, q.offset))

\* a slice object start:stop; any other subscript is NotSlice
Slice(start, stop) == [t |-> "slice", start |-> start, stop |-> stop]

NotSlice == PyStr

\* variant: only a limit marks a descriptor as sliced
limits_set_LimitOnly(q) == q.limit >= 0

\* Query.__getitem__: "if self.limit >= 0 or self.offset >= 0"
limits_set(q) == q.limit >= 0 \/ q.offset >= 0

\* variant: the limit is the stop index itself
new_limit_Stop(stop, new_offset) ==
    IF stop = PyNone THEN -1 ELSE stop.v

\* Query.__getitem__: the limit for a valid stop
new_limit(stop, new_offset) ==
    IF stop = PyNone THEN -1
    ELSE IF stop.v <= new_offset THEN 0
    ELSE stop.v - new_offset

\* Query.__getitem__
getitem(h, q, key) ==
    IF key = NotSlice THEN QRes("ValueError: slice expected", h, NoQuery)
    ELSE IF limits_set(q)
    THEN QRes("ValueError: limits already set", h, NoQuery)
    ELSE IF key.start # PyNone /\ key.start.t # "int"
    THEN QRes("TypeError", h, NoQuery)
    ELSE IF key.start # PyNone /\ key.start.v < 0
    THEN QRes("ValueError: negative start", h, NoQuery)
    ELSE
    LET new_offset == IF key.start = PyNone THEN 0 ELSE key.start.v
    IN  IF key.stop # PyNone /\ key.stop.t # "int"
        THEN QRes("TypeError", h, NoQuery)
        ELSE IF key.stop # PyNone /\ key.stop.v < 0
        THEN QRes("ValueError: negative stop", h, NoQuery)
        ELSE QRes("none", h,
                  Query(q.target_def, q.where, q.order,
                        new_limit(key.stop, new_offset), new_offset))

\* ------------------------------------------------------ descriptor steps
Comparators == {"eq", "lt", "lte", "gt", "gte"}

\* keywords a caller may filter by: the fields with every comparator, a
\* comparator that does not exist, a field that does not exist
RawKeys(t) ==
    IF t = "parent"
    THEN {<<"uval">>, <<"nope">>} \cup {<<"uval", c>> : c \in Comparators \cup {"xx"}}
    ELSE {<<"ref">>}

\* values a caller may give for a keyword
KwVals(t, key) ==
    IF t = "child" THEN {PyObj(1)}
    ELSE IF key = <<"uval">> THEN {PyInt(1), PyStr}
    ELSE IF key = <<"uval", "gte">> THEN {PyInt(v) : v \in Vals}
    ELSE {PyInt(1)}

\* the keyword arguments of one filter() call
FilterArgs(t) ==
    UNION {{<< <<key, v>> >> : v \in KwVals(t, key)} : key \in RawKeys(t)}

\* the keyword arguments of the get_all() call that starts a chain
GetAllArgs(t) ==
    {<<>>} \cup {kw \in FilterArgs(t) : Len(kw[1][1]) = 1 /\ kw[1][2] # PyStr}

\* the arguments of one order_by() call: <<prefix, name>> is prefix + name
OrderArgs(t) ==
    IF t = "parent"
    THEN {<< <<"", "uval">> >>, << <<"-", "uval">> >>}
    ELSE {<< <<"+", "id">> >>}

\* the subscripts a caller may use
SliceArgs ==
    {Slice(a, b) : a \in {PyNone} \cup {PyInt(n) : n \in -1..1},
                   b \in {PyNone} \cup {PyInt(n) : n \in -1..2}}
        \cup {NotSlice, Slice(PyStr, PyNone), Slice(PyNone, PyStr)}

KwArgs(kw) == [t |-> "kwargs", v |-> kw]

\* refinements are the first steps of a run
CanRefine == nops < MaxOps - 2

\* the refinement of descriptor k ended as r says
Refined(name, k, args, r) ==
    /\ queries' = IF r.err = "none" THEN Append(queries, r.query) ELSE queries
    /\ heap' = r.heap
    /\ last' = [op |-> name, i |-> k, key |-> "", val |-> args, err |-> r.err,
                ret |-> IF r.err = "none" THEN PyInt(Len(queries) + 1)
                        ELSE Unset]
    /\ nops' = nops + 1
    /\ UNCHANGED <<db, objs, log, threads, dbase, tdef>>

\* q.filter(**kw)
Filter ==
    /\ CanRefine
    /\ \E k \in 1..Len(queries) :
           \E kw \in FilterArgs(queries[k].target_def) :
               Refined("filter", k, KwArgs(kw), filter(heap, queries[k], kw))

\* q.order_by(*added)
OrderBy ==
    /\ CanRefine
    /\ \E k \in 1..Len(queries) :
           \E added \in OrderArgs(queries[k].target_def) :
               Refined("order_by", k, [t |-> "order", v |-> added],
                       order_by(heap, queries[k], added))

\* q[key]
GetItem ==
    /\ CanRefine
    /\ \E k \in 1..Len(queries) :
           \E key \in SliceArgs :
               Refined("getitem", k, key, getitem(heap, queries[k], key))

\* a chain starts with q = Cls.get_all(**kw)
RefineInit ==
    \E t \in Tables :
        \E kw \in GetAllArgs(t) :
            /\ queries = <<get_all(<<>>, t, kw).query>>
            /\ heap = get_all(<<>>, t, kw).heap
            /\ last = [op |-> "get_all", i |-> 0, key |-> "", val |-> KwArgs(kw),
                       err |-> "none", ret |-> PyInt(1)]
            /\ nops = 0
            /\ db = EmptyDB
            /\ objs = [i \in Slots |-> FreeObj]
            /\ log = <<>>
            /\ threads = <<>>
            /\ dbase = <<>>
            /\ tdef = <<>>

RefineNext ==
    \/ Filter
    \/ OrderBy
    \/ GetItem

RefineSpec == RefineInit /\ [][RefineNext]_vars

\* ------------------------------------------- properties of descriptors
\* what a descriptor says: its conditions, orders, limit and offset
View(h, q) ==
    [target_def |-> q.target_def, where |-> h[q.where], order |-> h[q.order],
     limit |-> q.limit, offset |-> q.offset]

\* the step just taken was the refinement `name` of descriptor k
Refines(name, k) == last'.op = name /\ last'.i = k

\* C11: Query descriptors are immutable: whatever refinement is applied to
\* whichever descriptor, every descriptor that existed before the step still
\* exists and has the same filter set, order list, limit and offset.
C11_DescriptorsImmutable ==
    [][\A k \in 1..Len(queries) :
          /\ k <= Len(queries')
          /\ queries'[k] = queries[k]
          /\ View(heap', queries'[k]) = View(heap, queries[k])]_vars

\* a base descriptor was refined twice, the second time by a filter, and the
\* two descriptors derived from it differ from it and from each other
C11_Witness ==
    /\ Len(queries) = 3
    /\ last.op = "filter"
    /\ last.i = 1
    /\ last.err = "none"
    /\ View(heap, queries[2]) # View(heap, queries[3])
    /\ View(heap, queries[1]) # View(heap, queries[2])
    /\ View(heap, queries[1]) # View(heap, queries[3])

IsIndex(v) == v = PyNone \/ v.t = "int"

\* C16: slicing an unsliced Query with [start:stop] yields a descriptor with
\* offset = 0 if start is absent else start, and limit = -1 if stop is
\* absent, 0 if stop <= offset, stop - offset otherwise; a negative start or
\* stop raises a typed error and yields no descriptor.
C16_SliceLimits ==
    [][\A k \in 1..Len(queries) :
          (/\ Refines("getitem", k)
           /\ queries[k].limit = -1
           /\ queries[k].offset = -1
           /\ last'.val.t = "slice"
           /\ IsIndex(last'.val.start)
           /\ IsIndex(last'.val.stop)) =>
             LET a == last'.val.start
                 b == last'.val.stop
                 off == IF a = PyNone THEN 0 ELSE a.v
                 new == queries'[Len(queries')]
             IN  IF (a # PyNone /\ a.v < 0) \/ (b # PyNone /\ b.v < 0)
                 THEN /\ last'.err \in {"ValueError: negative start",
                                        "ValueError: negative stop"}
                      /\ queries' = queries
                 ELSE /\ last'.err = "none"
                      /\ Len(queries') = Len(queries) + 1
                      /\ new.offset = off
                      /\ new.limit = IF b = PyNone THEN -1
                                     ELSE IF b.v <= off THEN 0
                                     ELSE b.v - off
                      /\ View(heap', new) =
                            [View(heap, queries[k]) EXCEPT
                                !.limit = new.limit, !.offset = new.offset]]_vars

\* [1:1] has given a descriptor with offset 1 and limit 0
C16_Witness ==
    /\ last.op = "getitem"
    /\ last.err = "none"
    /\ last.val = Slice(PyInt(1), PyInt(1))
    /\ queries[Len(queries)].offset = 1
    /\ queries[Len(queries)].limit = 0

NeverSliced(q) == q.limit = -1 /\ q.offset = -1

\* C17: every descriptor either was never sliced (limit = offset = -1) or
\* has offset >= 0 and limit >= -1; slicing a descriptor of the second kind,
\* the result of the full slice [:] included, raises 'limits already set'
\* and yields no descriptor.
C17_SlicedOnce ==
    /\ [](\A k \in 1..Len(queries) :
             \/ NeverSliced(queries[k])
             \/ queries[k].offset >= 0 /\ queries[k].limit >= -1)
    /\ [][\A k \in 1..Len(queries) :
             (/\ Refines("getitem", k)
              /\ last'.val.t = "slice"
              /\ ~ NeverSliced(queries[k])) =>
                /\ last'.err = "ValueError: limits already set"
                /\ queries' = queries
                /\ heap' = heap]_vars

\* the result of [:] has been sliced again, and that was refused
C17_Witness ==
    /\ last.op = "getitem"
    /\ last.err = "ValueError: limits already set"
    /\ last.val.t = "slice"
    /\ queries[last.i].limit = -1
    /\ queries[last.i].offset = 0

\* the field name of a keyword: what is left of its comparator
FieldPart(key) == key[1]

\* C18 as claimed: filter() rejects any condition whose field name is
\* already in the descriptor's filter set, whatever the comparators, and
\* leaves everything as it was.
C18_RejectsSameField ==
    [][\A k \in 1..Len(queries) :
          (/\ Refines("filter", k)
           /\ \E a \in DictKeys(heap[queries[k].where]) :
                 \E b \in DictKeys(last'.val.v) :
                     FieldPart(a) = FieldPart(b)) =>
             /\ last'.err = "ValueError: already filtered"
             /\ queries' = queries
             /\ heap' = heap]_vars

\* C18 amended: filter() rejects a condition exactly when its keyword, field
\* name and comparator suffix as written, is already in the filter set; the
\* rejected call changes nothing, and any other condition is accepted and
\* added after the existing ones.
C18_RejectsSameKeyword ==
    [][\A k \in 1..Len(queries) :
          Refines("filter", k) =>
             IF DictKeys(heap[queries[k].where]) \cap DictKeys(last'.val.v) # {}
             THEN /\ last'.err = "ValueError: already filtered"
                  /\ queries' = queries
                  /\ heap' = heap
             ELSE /\ last'.err = "none"
                  /\ Len(queries') = Len(queries) + 1
                  /\ heap'[queries'[Len(queries')].where] =
                        heap[queries[k].where] \o last'.val.v]_vars

\* a filter() on a keyword already present has been refused
C18_Witness ==
    /\ last.op = "filter"
    /\ last.err = "ValueError: already filtered"
    /\ DictKeys(last.val.v) \subseteq DictKeys(heap[queries[last.i].where])

\* ------------------------------------------------- terminal operations
\* variant: a comparator that does not exist is taken as EQ
extract_comp_Lenient(key) ==
    IF Len(key) = 1 \/ key[2] \notin Comparators THEN Ok(<<key[1], "eq">>)
    ELSE Ok(<<key[1], key[2]>>)

\* DBCmpOp.extract_comp: the keyword is split at its last "__"; without one
\* the comparator is EQ
extract_comp(key) ==
    IF Len(key) = 1 THEN Ok(<<key[1], "eq">>)
    ELSE IF key[2] \in Comparators THEN Ok(<<key[1], key[2]>>)
    ELSE Err("ValueError: invalid comparator")

\* DBOrder.extract_order
extract_order(value) ==
    IF value[1] = "+" THEN <<value[2], "asc">>
    ELSE IF value[1] = "-" THEN <<value[2], "desc">>
    ELSE <<value[2], "asc">>

\* TableDef._get_field
get_field(t, name) ==
    IF name \in FieldNames(t) THEN Ok(name) ELSE Err("AttributeError")

\* TableDef._build_filter: each condition of the dict, in its order, becomes
\* (column, comparator, storage value); the first failure ends it
RECURSIVE build_filter(_, _, _)
build_filter(os, t, py_filter) ==
    IF py_filter = <<>> THEN Ok(<<>>)
    ELSE
    LET c == extract_comp(py_filter[1][1])
    IN  IF c.err # "none" THEN Err(c.err)
        ELSE
        LET f == get_field(t, c.val[1])
        IN  IF f.err # "none" THEN Err(f.err)
            ELSE
            LET v == convert_to_db(os, t, f.val, py_filter[1][2])
            IN  IF v.err # "none" THEN Err(v.err)
                ELSE
                LET rest == build_filter(os, t, Tail(py_filter))
                IN  IF rest.err # "none" THEN rest
                    ELSE Ok(<<<<ORMField(t, f.val).db_name, c.val[2], v.val>>>>
                            \o rest.val)

\* TableDef._build_order
RECURSIVE build_order(_, _)
build_order(t, order) ==
    IF order = <<>> THEN Ok(<<>>)
    ELSE
    LET o == extract_order(order[1])
        f == get_field(t, o[1])
    IN  IF f.err # "none" THEN Err(f.err)
        ELSE
        LET rest == build_order(t, Tail(order))
        IN  IF rest.err # "none" THEN rest
            ELSE Ok(<<<<ORMField(t, f.val).db_name, o[2]>>>> \o rest.val)

\* TableDef._build_query on the contents of a descriptor; the filter is
\* consumed before the order
build_query(os, h, q) ==
    LET f == build_filter(os, q.target_def, h[q.where])
        o == build_order(q.target_def, h[q.order])
    IN  IF f.err # "none" THEN Err(f.err)
        ELSE IF o.err # "none" THEN Err(o.err)
        ELSE Ok(DBQuery(q.target_def, f.val, o.val, q.offset, q.limit))

\* Database.Separator.get
Separator(head, separator, first) == IF first THEN head ELSE separator

\* Database.CMP_STR
CMP_STR(cmp_op) ==
    CASE cmp_op = "eq"  -> " = ?"
      [] cmp_op = "lt"  -> " < ?"
      [] cmp_op = "lte" -> " <= ?"
      [] cmp_op = "gt"  -> " > ?"
      [] cmp_op = "gte" -> " >= ?"

\* _query_parts, the filter loop: the parts, and the values appended to params
RECURSIVE filter_parts(_, _)
filter_parts(conds, first) ==
    IF conds = <<>> THEN [sql |-> <<>>, params |-> <<>>]
    ELSE LET rest == filter_parts(Tail(conds), FALSE)
         IN  [sql |-> <<Separator(" where ", " and ", first), conds[1][1],
                        CMP_STR(conds[1][2])>> \o rest.sql,
              params |-> <<conds[1][3]>> \o rest.params]

\* _query_parts, the order loop
RECURSIVE order_parts(_, _)
order_parts(order, first) ==
    IF order = <<>> THEN <<>>
    ELSE <<Separator(" order by ", ", ", first), order[1][1], " ", order[1][2]>>
         \o order_parts(Tail(order), FALSE)

\* variant: a limit clause only when a limit is set
limit_needed_MaxCount(q) == q.max_count >= 0

\* _query_parts: "if query.max_count >= 0 or query.offset >= 0"
limit_needed(q) == q.max_count >= 0 \/ q.offset >= 0

\* Database._query_parts
query_parts(q) ==
    LET f == filter_parts(q.filter, TRUE)
    IN  [sql |-> <<" from ", q.table_name>> \o f.sql
                 \o order_parts(q.order, TRUE)
                 \o (IF limit_needed(q)
                     THEN <<" limit ", ToString(q.max_count)>> ELSE <<>>)
                 \o (IF q.offset >= 0
                     THEN <<" offset ", ToString(q.offset)>> ELSE <<>>),
         params |-> f.params]

\* _select_parts, the column loop
RECURSIVE col_parts(_, _)
col_parts(col_names, first) ==
    IF col_names = <<>> THEN <<>>
    ELSE <<Separator("", ", ", first), col_names[1]>>
         \o col_parts(Tail(col_names), FALSE)

\* Database._select_parts
select_parts(col_names, q) ==
    LET p == query_parts(q)
    IN  [sql |-> <<"select ">> \o col_parts(col_names, TRUE) \o p.sql \o <<";">>,
         params |-> p.params]

\* Database._delete_parts
delete_parts(q) ==
    LET p == query_parts(q)
    IN  [sql |-> <<"delete from ", q.table_name,
                   " where rowid in (select rowid">> \o p.sql \o <<");">>,
         params |-> p.params]

\* TableDef.db_cols as the list it is
col_list(t) == [k \in 1..Len(fields(t)) |-> ORMField(t, fields(t)[k]).db_name]

\* the statement handed to SQLite, with the query it was generated from
Stmt(op, parts, q) ==
    [op |-> op, sql |-> parts.sql, params |-> parts.params, query |-> q]

PyList(s) == [t |-> "list", v |-> s]

\* list(q): Query.__iter__ / TableDef.get_matching
get_matching(os, d, h, q) ==
    LET b == build_query(os, h, q)
    IN  IF b.err # "none" THEN Res(b.err, os, d, <<>>, Unset)
        ELSE
        LET rows == select(d, b.val)
        IN  Res("none", os, d,
                <<Stmt("select", select_parts(col_list(q.target_def), b.val),
                       b.val)>>,
                PyList([k \in 1..Len(rows) |->
                           obj_from_db(q.target_def, rows[k])]))

\* Query.count / TableDef.count_matching: next() of the result rows
count_matching(os, d, h, q) ==
    LET b == build_query(os, h, q)
    IN  IF b.err # "none" THEN Res(b.err, os, d, <<>>, Unset)
        ELSE
        LET rows == select_count(d, b.val)
            stmt == Stmt("select", select_parts(<<"count(*)">>, b.val), b.val)
        IN  IF Len(rows) = 0
            THEN Res("StopIteration", os, d, <<stmt>>, Unset)
            ELSE Res("none", os, d, <<stmt>>, PyInt(rows[1]))

\* Query.delete / TableDef.delete_matching from a descriptor
query_delete(os, d, h, q) ==
    LET b == build_query(os, h, q)
    IN  IF b.err # "none" THEN Res(b.err, os, d, <<>>, Unset)
        ELSE [delete_matching(os, d, b.val) EXCEPT
                 !.log = <<Stmt("delete_matching", delete_parts(b.val), b.val)>>]

\* ------------------------------------------------- terminal steps
\* the conditions a caller narrows a descriptor by before running it
NarrowArgs(t) ==
    IF t = "parent"
    THEN {<< <<<<"uval">>, PyInt(1)>> >>, << <<<<"uval">>, PyStr>> >>,
          << <<<<"uval", "gte">>, PyInt(1)>> >>,
          << <<<<"uval", "lt">>, PyInt(2)>> >>,
          << <<<<"uval", "xx">>, PyInt(1)>> >>, << <<<<"nope">>, PyInt(1)>> >>}
    ELSE {<< <<<<"ref">>, PyObj(1)>> >>}

\* q = q.filter(**kw): the caller goes on with the narrowed descriptor
Narrow ==
    /\ CanRefine
    /\ \E kw \in NarrowArgs(queries[1].target_def) :
           LET r == filter(heap, queries[1], kw)
           IN  /\ queries' = IF r.err = "none" THEN <<r.query>> ELSE queries
               /\ heap' = r.heap
               /\ last' = [op |-> "filter", i |-> 1, key |-> "",
                           val |-> KwArgs(kw), err |-> r.err,
                           ret |-> IF r.err = "none" THEN PyInt(1) ELSE Unset]
               /\ nops' = nops + 1
               /\ UNCHANGED <<db, objs, log, threads, dbase, tdef>>

\* the terminal operation is the last operation of a run
CanEnd == nops = MaxOps - 1

\* list(q)
Iterate ==
    /\ CanEnd
    /\ Done("iterate", 1, "", Unset, get_matching(objs, db, heap, queries[1]))

\* q.count()
Count ==
    /\ CanEnd
    /\ Done("count", 1, "", Unset, count_matching(objs, db, heap, queries[1]))

\* q.delete()
QDelete ==
    /\ CanEnd
    /\ Done("qdelete", 1, "", Unset, query_delete(objs, db, heap, queries[1]))

\* what a run starts from: the rows earlier runs left and the instance the
\* caller holds in slot 1
ParentRow(k, v) == [id |-> DBInt(k), uval |-> DBInt(v)]

ChildRow(k, r) == [id |-> DBInt(k), ref_id |-> DBInt(r), opt_id |-> DBNull]

Held(d, o) == [db |-> d, objs |-> [i \in Slots |-> IF i = 1 THEN o ELSE FreeObj]]

TwoParents ==
    [t \in Tables |-> IF t = "parent" THEN {ParentRow(1, 1), ParentRow(2, 2)}
                      ELSE {ChildRow(1, 2)}]

OneParent ==
    [t \in Tables |-> IF t = "parent" THEN {ParentRow(1, 1)}
                      ELSE {ChildRow(1, 1), ChildRow(2, 1)}]

\* p = Parent.get_one(id=1), clean or with uval assigned; or
\* p = Parent.new_empty() with uval assigned, not saved yet
Starts ==
    LET loaded == Held(TwoParents, obj_from_db("parent", ParentRow(1, 1)))
        fresh == Held(OneParent, init_empty_obj("parent"))
    IN  {loaded,
         [loaded EXCEPT !.objs = handle_obj_assign(loaded.objs, loaded.db, 1,
                                                   "uval", PyInt(2)).objs],
         [fresh EXCEPT !.objs = handle_obj_assign(fresh.objs, fresh.db, 1,
                                                  "uval", PyInt(2)).objs]}

\* the descriptors a run starts from: get_all(), ordered or not, sliced or not
StartOrders(t) ==
    IF t = "parent" THEN {<<>>, << <<"-", "uval">>, <<"+", "id">> >>}
    ELSE {<<>>, << <<"", "ref">>, <<"-", "id">> >>}

StartSlices ==
    {PyNone, Slice(PyNone, PyInt(1)), Slice(PyInt(1), PyNone),
     Slice(PyInt(1), PyInt(2)), Slice(PyNone, PyInt(0))}

StartQuery(t, order, key) ==
    LET g == get_all(<<>>, t, <<>>)
        o == IF order = <<>> THEN g ELSE order_by(g.heap, g.query, order)
    IN  IF key = PyNone THEN o ELSE getitem(o.heap, o.query, key)

QueryInit ==
    \E st \in Starts, t \in Tables :
        \E order \in StartOrders(t), key \in StartSlices :
            /\ queries = <<StartQuery(t, order, key).query>>
            /\ heap = StartQuery(t, order, key).heap
            /\ db = st.db
            /\ objs = st.objs
            /\ last = [op |-> "get_all", i |-> 0, key |-> "", val |-> key,
                       err |-> "none", ret |-> PyInt(1)]
            /\ log = <<>>
            /\ nops = 0
            /\ threads = <<>>
            /\ dbase = <<>>
            /\ tdef = <<>>

QueryNext ==
    \/ Narrow
    \/ Iterate
    \/ Count
    \/ QDelete
    \/ Save

QuerySpec == QueryInit /\ [][QueryNext]_vars

\* ------------------------------------------- properties of terminal steps
Terminals == {"iterate", "count", "qdelete"}

\* what list(q) gives in the current state
Yielded == get_matching(objs, db, heap, queries[1])

\* C14: count() returns the number of instances that iterating the same
\* descriptor yields, whatever its filter, order, offset and limit.
C14_CountIsIterationLength ==
    [][(last'.op = "count" /\ Yielded.err = "none") =>
           /\ last'.err = "none"
           /\ last'.ret = PyInt(Len(Yielded.ret.v))]_vars

BadCond(os, t, c) ==
    \/ Len(c[1]) = 2 /\ c[1][2] \notin Comparators
    \/ c[1][1] \notin FieldNames(t)
    \/ c[2] = PyStr
    \/ /\ c[2].t = "obj"
       /\ ~ (os[c[2].v].live /\ os[c[2].v].db_id >= 0
             /\ "id" \notin DOMAIN os[c[2].v].modified)

\* the storage value of a condition value
StoredAs(os, v) ==
    IF v.t = "obj" THEN DBInt(os[v.v].attrs["id"].v) ELSE DBInt(v.v)

\* C19 as stated: filter() converts every condition value when the condition
\* is added, so a condition that cannot be converted (unknown field, unknown
\* comparator, invalid value, foreign key target without a stable id at that
\* moment) is reported by the filter() call itself.
C19_ConvertedByFilter ==
    [][last'.op = "filter" =>
           ((\E k \in 1..Len(last'.val.v) :
                BadCond(objs, queries[1].target_def, last'.val.v[k]))
              => last'.err # "none")]_vars

\* C19 amended: filter() stores the condition as given and fails only on a
\* keyword already present; the conversion happens in the terminal operation
\* (iteration, count() or delete()), which reports the first condition that
\* cannot be converted before any statement is sent, and otherwise sends as
\* parameters the storage values of that moment: for a foreign key condition
\* the target's id when the terminal operation runs.
C19_ConvertedByTerminal ==
    [][/\ last'.op = "filter" =>
            LET w == heap[queries[1].where]
                kw == last'.val.v
            IN  /\ (last'.err = "none") <=> (kw[1][1] \notin DictKeys(w))
                /\ last'.err = "none" => heap'[queries'[1].where] = w \o kw
                /\ last'.err # "none" => queries' = queries /\ heap' = heap
       /\ last'.op \in Terminals =>
            LET w == heap[queries[1].where]
                t == queries[1].target_def
            IN  IF \E k \in 1..Len(w) : BadCond(objs, t, w[k])
                THEN /\ last'.err \notin {"none", "StopIteration"}
                     /\ log' = <<>>
                     /\ db' = db
                ELSE /\ last'.err \in {"none", "StopIteration"}
                     /\ Len(log') = 1
                     /\ log'[1].params =
                            [k \in 1..Len(w) |-> StoredAs(objs, w[k][2])]]_vars

\* a foreign key condition on an instance created in this run has been run
\* with the id the instance got when it was saved
C19_Witness ==
    /\ last.op \in Terminals
    /\ last.err = "none"
    /\ queries[1].target_def = "child"
    /\ Len(heap[queries[1].where]) = 1
    /\ heap[queries[1].where][1][2] = PyObj(1)
    /\ objs[1].db_id = 2
    /\ log[1].params = <<DBInt(2)>>

\* the positions of a part in a statement
Positions(sql, parts) == {i \in 1..Len(sql) : sql[i] \in parts}

\* the k-th smallest member of a set of positions
Nth(S, k) == CHOOSE i \in S : Cardinality({j \in S : j < i}) = k - 1

Placeholders == {" = ?", " < ?", " <= ?", " > ?", " >= ?"}

\* C20: in the statement generated for a descriptor (the SELECT of iteration
\* and count(), the subquery of the DELETE) there is a limit clause iff limit
\* >= 0 or offset >= 0, carrying the limit (-1 when only an offset is set);
\* an offset clause iff offset >= 0, right after the limit clause; one
\* "where" and then "and" before the conditions, in descriptor order; one
\* "order by" and then ", " before the orders, in descriptor order; and the
\* parameters are the condition values in the same order, one per placeholder.
C20_StatementShape ==
    (last.op \in Terminals /\ log # <<>>) =>
        LET sql == log[1].sql
            q == queries[1]
            t == q.target_def
            w == heap[q.where]
            o == heap[q.order]
            lim == Positions(sql, {" limit "})
            off == Positions(sql, {" offset "})
            conds == Positions(sql, {" where ", " and "})
            ob == Positions(sql, {" order by "})
            ords == ob \cup {i \in Positions(sql, {", "}) : \E j \in ob : j < i}
        IN  /\ Cardinality(lim) = IF q.limit >= 0 \/ q.offset >= 0 THEN 1 ELSE 0
            /\ Cardinality(off) = IF q.offset >= 0 THEN 1 ELSE 0
            /\ \A i \in lim : sql[i + 1] = ToString(q.limit)
            /\ \A i \in off : /\ sql[i + 1] = ToString(q.offset)
                              /\ i - 2 \in lim
            /\ Cardinality(conds) = Len(w)
            /\ \A k \in 1..Len(w) :
                   LET i == Nth(conds, k)
                   IN  /\ sql[i] = IF k = 1 THEN " where " ELSE " and "
                       /\ sql[i + 1] = ORMField(t, w[k][1][1]).db_name
                       /\ sql[i + 2] \in Placeholders
                       /\ log[1].params[k] = StoredAs(objs, w[k][2])
            /\ Cardinality(Positions(sql, Placeholders)) = Len(log[1].params)
            /\ Len(log[1].params) = Len(w)
            /\ Cardinality(ords) = Len(o)
            /\ \A k \in 1..Len(o) :
                   LET i == Nth(ords, k)
                   IN  /\ sql[i] = IF k = 1 THEN " order by " ELSE ", "
                       /\ sql[i + 1] = ORMField(t, o[k][2]).db_name
                       /\ sql[i + 3] = IF o[k][1] = "-" THEN "desc" ELSE "asc"
            /\ \A i \in conds, j \in ords : i < j
            /\ \A i \in conds \cup ords, j \in lim : i < j

\* a DELETE for a descriptor with two conditions, two orders and an offset
\* but no limit
C20_Witness ==
    /\ last.op = "qdelete"
    /\ log # <<>>
    /\ Len(heap[queries[1].where]) >= 2
    /\ Len(heap[queries[1].order]) >= 2
    /\ queries[1].offset > 0
    /\ queries[1].limit = -1
    /\ \E i \in 1..Len(log[1].sql) - 3 :
           /\ log[1].sql[i] = " limit "
           /\ log[1].sql[i + 1] = "-1"
           /\ log[1].sql[i + 2] = " offset "

\* ------------------------------------------------- Database connection
NThreads == 2   \* threads using the Database object

Threads == 1..NThreads

\* the n-th connection sqlite3.connect returned
Conn(n) == [t |-> "conn", v |-> n]

\* Database.__init__: no connection, the lock free (owner 0); nothing
\* connected yet; the database file is there or not
NewDatabase(file) == [conn |-> PyNone, lock |-> 0, created |-> 0, file |-> file]

\* a thread: where it is, the connection it got, the connections its
\* statements ran on, whether it found no connection at its first look
NewThread ==
    [pc |-> "idle", force |-> FALSE, conn |-> PyNone, used |-> {},
     waited |-> FALSE, err |-> "none"]

\* the thread moves on
Goes(i, th, d) ==
    /\ threads' = [threads EXCEPT ![i] = th]
    /\ dbase' = d
    /\ UNCHANGED <<db, objs, log, last, queries, heap, tdef>>

\* "with self._init_lock" is left
Released(d) == [d EXCEPT !.lock = 0]

\* Database._connect_to_db: one more connection, the file created if needed
connect_to_db(d) ==
    [d EXCEPT !.created = @ + 1, !.conn = Conn(d.created + 1), !.file = TRUE]

\* a thread calls exec_raw / fetch_raw
CallExec ==
    /\ CanStep
    /\ \E i \in Threads :
           /\ threads[i].pc = "idle"
           /\ nops' = nops + 1
           /\ Goes(i, [threads[i] EXCEPT !.pc = "check", !.err = "none"], dbase)

\* a thread calls init(force=...)
CallInit ==
    /\ CanStep
    /\ \E i \in Threads, force \in BOOLEAN :
           /\ threads[i].pc = "idle"
           /\ nops' = nops + 1
           /\ Goes(i, [threads[i] EXCEPT !.pc = "init_lock", !.force = force,
                                         !.err = "none"], dbase)

\* _get_connection: "if self._conn is not None: return self._conn"
FirstCheck ==
    \E i \in Threads :
        /\ threads[i].pc = "check"
        /\ UNCHANGED nops
        /\ IF dbase.conn # PyNone
           THEN Goes(i, [threads[i] EXCEPT !.pc = "execute",
                                           !.conn = dbase.conn], dbase)
           ELSE Goes(i, [threads[i] EXCEPT !.pc = "lock", !.waited = TRUE],
                     dbase)

\* "with self._init_lock": the thread waits until the lock is free
Acquire ==
    \E i \in Threads :
        /\ threads[i].pc \in {"lock", "init_lock"}
        /\ dbase.lock = 0
        /\ UNCHANGED nops
        /\ Goes(i, [threads[i] EXCEPT
                       !.pc = IF @ = "lock" THEN "locked" ELSE "init_locked"],
                [dbase EXCEPT !.lock = i])

\* variant: no second look at the connection once the lock is held
recheck_Skip(d) == FALSE

\* _get_connection, inside the lock: "if self._conn is not None"
recheck(d) == d.conn # PyNone

\* _get_connection, inside the lock, up to the file check
Locked ==
    \E i \in Threads :
        /\ threads[i].pc = "locked"
        /\ UNCHANGED nops
        /\ IF recheck(dbase)
           THEN Goes(i, [threads[i] EXCEPT !.pc = "execute",
                                           !.conn = dbase.conn],
                     Released(dbase))
           ELSE IF ~ dbase.file
           THEN Goes(i, [threads[i] EXCEPT !.pc = "exited",
                                           !.err = "SystemExit"],
                     Released(dbase))
           ELSE Goes(i, [threads[i] EXCEPT !.pc = "connect"], dbase)

\* _get_connection: "self._conn = self._connect_to_db(db_path)" and return
Connect ==
    \E i \in Threads :
        /\ threads[i].pc = "connect"
        /\ UNCHANGED nops
        /\ Goes(i, [threads[i] EXCEPT !.pc = "execute",
                                      !.conn = connect_to_db(dbase).conn],
                Released(connect_to_db(dbase)))

\* exec_raw / fetch_raw: the statement runs on the connection obtained
Execute ==
    \E i \in Threads :
        /\ threads[i].pc = "execute"
        /\ UNCHANGED nops
        /\ Goes(i, [threads[i] EXCEPT !.pc = "idle",
                                      !.used = @ \cup {threads[i].conn}],
                dbase)

\* init, inside the lock, up to the removal of an existing file
InitLocked ==
    \E i \in Threads :
        /\ threads[i].pc = "init_locked"
        /\ UNCHANGED nops
        /\ IF dbase.conn # PyNone
           THEN Goes(i, [threads[i] EXCEPT !.pc = "idle",
                                           !.err = "AssertionError"],
                     Released(dbase))
           ELSE IF dbase.file /\ ~ threads[i].force
           THEN Goes(i, [threads[i] EXCEPT !.pc = "exited",
                                           !.err = "SystemExit"],
                     Released(dbase))
           ELSE Goes(i, [threads[i] EXCEPT !.pc = "init_connect"],
                     [dbase EXCEPT !.file = FALSE])

\* init: the connection is made and the hooks run their statements on it
InitConnect ==
    \E i \in Threads :
        /\ threads[i].pc = "init_connect"
        /\ UNCHANGED nops
        /\ Goes(i, [threads[i] EXCEPT !.pc = "idle",
                                      !.conn = connect_to_db(dbase).conn,
                                      !.used = @ \cup {connect_to_db(dbase).conn}],
                Released(connect_to_db(dbase)))

ConnInit ==
    /\ \E file \in BOOLEAN : dbase = NewDatabase(file)
    /\ threads = [i \in Threads |-> NewThread]
    /\ nops = 0
    /\ db = EmptyDB
    /\ objs = [i \in Slots |-> FreeObj]
    /\ log = <<>>
    /\ last = [op |-> "none", i |-> 0, key |-> "", val |-> Unset,
               err |-> "none", ret |-> Unset]
    /\ queries = <<>>
    /\ heap = <<>>
    /\ tdef = <<>>

ConnNext ==
    \/ CallExec
    \/ CallInit
    \/ FirstCheck
    \/ Acquire
    \/ Locked
    \/ Connect
    \/ Execute
    \/ InitLocked
    \/ InitConnect

ConnSpec == ConnInit /\ [][ConnNext]_vars

\* C12: over the lifetime of a Database object at most one connection is
\* created, by init() or by the first statement; every statement of every
\* thread runs on that connection, also when several threads found the
\* database not yet open at the same time; and the lock is held by at most
\* the one thread that is inside it.
C12_SingleConnection ==
    /\ dbase.created <= 1
    /\ dbase.conn = IF dbase.created = 0 THEN PyNone ELSE Conn(1)
    /\ \A i \in Threads :
           /\ threads[i].used \subseteq {Conn(1)}
           /\ threads[i].pc = "execute" => threads[i].conn = Conn(1)
           /\ threads[i].pc \in {"locked", "connect", "init_locked",
                                 "init_connect"} => dbase.lock = i

\* every thread found the database not open at its first look, and all of
\* them have run a statement on the one connection made
C12_Witness ==
    /\ dbase.created = 1
    /\ \A i \in Threads :
           /\ threads[i].waited
           /\ threads[i].used = {Conn(1)}
           /\ threads[i].err = "none"

\* ------------------------------------------------- field list setup
\* TableDef.create: no field, no column, the raw attributes of every
\* declared field but id
NewTableDef(t) ==
    [name |-> t, fields |-> <<>>, db_cols |-> <<>>,
     raw_field_attrs |-> FieldNames(t) \ {"id"}]

\* typing.get_type_hints: the annotations in declaration order, id included
annotations(t) == fields(t)

\* "self.fields[name] = ...": a key of a dict is there once
SetKey(m, name) ==
    IF \E k \in 1..Len(m) : m[k] = name THEN m ELSE Append(m, name)

\* a thread in an operation that needs the field list: where it is, the
\* annotation its loop is at, the field and column lists it went on with
SetupThread ==
    [pc |-> "idle", k |-> 0, err |-> "none", fields |-> <<>>, db_cols |-> <<>>]

\* the thread moves on
Steps(i, th, td) ==
    /\ threads' = [threads EXCEPT ![i] = th]
    /\ tdef' = td
    /\ UNCHANGED <<db, objs, log, last, queries, heap, dbase>>

\* the loop goes to the annotation after k, skipping id; after the last one
\* to the final assert
Advance(th, k) ==
    IF k + 1 > Len(annotations(tdef.name)) THEN [th EXCEPT !.pc = "assert"]
    ELSE IF annotations(tdef.name)[k + 1] = "id"
    THEN IF k + 2 > Len(annotations(tdef.name)) THEN [th EXCEPT !.pc = "assert"]
         ELSE [th EXCEPT !.pc = "pop", !.k = k + 2]
    ELSE [th EXCEPT !.pc = "pop", !.k = k + 1]

\* a thread calls an operation of the record type (get_matching, init_obj,
\* save_obj, ...): "self._setup_if_needed()"
CallOp ==
    /\ CanStep
    /\ \E i \in Threads :
           /\ threads[i].pc = "idle"
           /\ nops' = nops + 1
           /\ Steps(i, [threads[i] EXCEPT !.pc = "setup", !.err = "none"], tdef)

\* "if self.fields: return"
SetupCheck ==
    \E i \in Threads :
        /\ threads[i].pc = "setup"
        /\ UNCHANGED nops
        /\ Steps(i, [threads[i] EXCEPT
                        !.pc = IF tdef.fields # <<>> THEN "proceed" ELSE "set_id"],
                 tdef)

\* "self.fields['id'] = ORMIDField.get()"
SetId ==
    \E i \in Threads :
        /\ threads[i].pc = "set_id"
        /\ UNCHANGED nops
        /\ Steps(i, [threads[i] EXCEPT !.pc = "append_id"],
                 [tdef EXCEPT !.fields = SetKey(@, "id")])

\* "self.db_cols.append('id')", then get_type_hints and the loop start
AppendId ==
    \E i \in Threads :
        /\ threads[i].pc = "append_id"
        /\ UNCHANGED nops
        /\ Steps(i, Advance(threads[i], 0),
                 [tdef EXCEPT !.db_cols = Append(@, "id")])

\* "attr = self.raw_field_attrs.pop(name)": KeyError if it is gone
PopAttr ==
    \E i \in Threads :
        LET name == annotations(tdef.name)[threads[i].k]
        IN  /\ threads[i].pc = "pop"
            /\ UNCHANGED nops
            /\ IF name \in tdef.raw_field_attrs
               THEN Steps(i, [threads[i] EXCEPT !.pc = "set_field"],
                          [tdef EXCEPT !.raw_field_attrs = @ \ {name}])
               ELSE Steps(i, [threads[i] EXCEPT !.pc = "idle",
                                                !.err = "KeyError"], tdef)

\* "self.fields[name] = field_obj"
SetField ==
    \E i \in Threads :
        /\ threads[i].pc = "set_field"
        /\ UNCHANGED nops
        /\ Steps(i, [threads[i] EXCEPT !.pc = "append_col"],
                 [tdef EXCEPT !.fields =
                      SetKey(@, annotations(tdef.name)[threads[i].k])])

\* "self.db_cols.append(db_name)", then the next annotation
AppendCol ==
    \E i \in Threads :
        /\ threads[i].pc = "append_col"
        /\ UNCHANGED nops
        /\ Steps(i, Advance(threads[i], threads[i].k),
                 [tdef EXCEPT !.db_cols =
                      Append(@, ORMField(tdef.name,
                                 annotations(tdef.name)[threads[i].k]).db_name)])

\* "assert not self.raw_field_attrs"
AssertDone ==
    \E i \in Threads :
        /\ threads[i].pc = "assert"
        /\ UNCHANGED nops
        /\ IF tdef.raw_field_attrs = {}
           THEN Steps(i, [threads[i] EXCEPT !.pc = "proceed"], tdef)
           ELSE Steps(i, [threads[i] EXCEPT !.pc = "idle",
                                            !.err = "AssertionError"], tdef)

\* the operation goes on with the field and column lists as they are
Proceed ==
    \E i \in Threads :
        /\ threads[i].pc = "proceed"
        /\ UNCHANGED nops
        /\ Steps(i, [threads[i] EXCEPT !.pc = "idle", !.fields = tdef.fields,
                                       !.db_cols = tdef.db_cols], tdef)

SetupInit ==
    /\ \E t \in Tables : tdef = NewTableDef(t)
    /\ threads = [i \in Threads |-> SetupThread]
    /\ nops = 0
    /\ db = EmptyDB
    /\ objs = [i \in Slots |-> FreeObj]
    /\ log = <<>>
    /\ last = [op |-> "none", i |-> 0, key |-> "", val |-> Unset,
               err |-> "none", ret |-> Unset]
    /\ queries = <<>>
    /\ heap = <<>>
    /\ dbase = <<>>

SetupNext ==
    \/ CallOp
    \/ SetupCheck
    \/ SetId
    \/ AppendId
    \/ PopAttr
    \/ SetField
    \/ AppendCol
    \/ AssertDone
    \/ Proceed

SetupSpec == SetupInit /\ [][SetupNext]_vars

\* C13: the field list of a record type is built exactly once: no thread
\* goes on with a field list that is not the complete one, no thread's setup
\* fails, and no column is twice in the column list.
C13_FieldListBuiltOnce ==
    /\ \A j, k \in 1..Len(tdef.db_cols) :
           j # k => tdef.db_cols[j] # tdef.db_cols[k]
    /\ \A i \in Threads :
           /\ threads[i].err = "none"
           /\ threads[i].pc = "proceed" => tdef.fields = fields(tdef.name)

\* ------------------------------------------------- construction
\* the kw_only class parameter: Child is declared with kw_only=True
kw_only(t) == t = "child"

\* init_obj, positional arguments: they become keyword arguments named after
\* the fields that follow id
RECURSIVE zip_args(_, _, _)
zip_args(arg_names, init_args, init_kwargs) ==
    IF arg_names = <<>> \/ init_args = <<>> THEN Ok(init_kwargs)
    ELSE IF arg_names[1] \in DOMAIN init_kwargs
    THEN Err("TypeError: multiple values")
    ELSE zip_args(Tail(arg_names), Tail(init_args),
                  Put(init_kwargs, arg_names[1], init_args[1]))

positional(t, init_args, init_kwargs) ==
    IF init_args = <<>> THEN Ok(init_kwargs)
    ELSE IF kw_only(t) THEN Err("TypeError: keyword only")
    ELSE IF Len(init_args) > Len(fields(t)) - 1
    THEN Err("TypeError: too many positional")
    ELSE zip_args(Tail(fields(t)), init_args, init_kwargs)

\* init_obj, the loop over the declared fields: the value given, else the
\* default (None, the only default producer declared), else an error; id may
\* be left out
RECURSIVE init_fields(_, _, _, _)
init_fields(os, names, init_kwargs, o) ==
    IF names = <<>> THEN Ok(o)
    ELSE
    LET f == names[1]
        given == f \in DOMAIN init_kwargs
    IN  IF ~ given /\ f = "id"
        THEN init_fields(os, Tail(names), init_kwargs, o)
        ELSE IF ~ given /\ ~ ORMField(o.cls, f).factory
        THEN Err("TypeError: missing argument, no default")
        ELSE
        LET py_val == IF given THEN init_kwargs[f] ELSE PyNone
            c == convert_to_db(os, o.cls, f, py_val)
        IN  IF c.err # "none" THEN Err(c.err)
            ELSE init_fields(os, Tail(names), init_kwargs,
                     [o EXCEPT !.attrs[f] = py_val,
                               !.modified = Put(@, ORMField(o.cls, f).db_name,
                                                c.val)])

\* TableDef.init_obj: the instance before its first save
init_obj(os, t, init_args, init_kwargs) ==
    LET kw == positional(t, init_args, init_kwargs)
        blank == [cls |-> t, attrs |-> [f \in FieldNames(t) |-> Unset],
                  live |-> TRUE, db_id |-> -1, fk_ids |-> EmptyMap,
                  modified |-> EmptyMap]
    IN  IF kw.err # "none" THEN Err(kw.err)
        ELSE
        LET o == init_fields(os, fields(t), kw.val, blank)
        IN  IF o.err # "none" THEN o
            ELSE IF DOMAIN kw.val \ FieldNames(t) # {}
            THEN Err("TypeError: unexpected keyword")
            ELSE o

\* DBObject.__init__: init_obj, then save(); the caller gets the instance in
\* slot k only if both succeed
construct(os, d, k, t, init_args, init_kwargs) ==
    LET o == init_obj(os, t, init_args, init_kwargs)
    IN  IF o.err # "none" THEN Res(o.err, os, d, <<>>, Unset)
        ELSE
        LET r == save_obj([os EXCEPT ![k] = o.val], d, k)
        IN  IF r.err # "none" THEN Res(r.err, os, d, r.log, Unset)
            ELSE Res("none", r.objs, r.db, r.log, PyObj(k))

\* one keyword argument
Kw(key, v) == [k \in {key} |-> v]

\* the arguments a caller may construct a record with: complete, with an id,
\* with a field missing, with a value its field refuses, with a keyword that
\* is no field, positional
CtorArgs(os, t) ==
    IF t = "parent"
    THEN {[args |-> <<>>, kw |-> kw] :
             kw \in {EmptyMap, Kw("uval", PyInt(1)), Kw("uval", PyInt(MaxVal)),
                     Kw("uval", PyStr), Kw("id", PyInt(MaxId)),
                     Put(Kw("uval", PyInt(1)), "id", PyInt(0)),
                     Put(Kw("uval", PyInt(MaxVal)), "id", PyInt(MaxId)),
                     Put(Kw("uval", PyInt(MaxVal)), "nope", PyInt(1))}}
         \cup {[args |-> <<PyInt(1)>>, kw |-> EmptyMap],
               [args |-> <<PyInt(1), PyInt(MaxVal)>>, kw |-> EmptyMap],
               [args |-> <<PyInt(1)>>, kw |-> Kw("uval", PyInt(MaxVal))]}
    ELSE {[args |-> <<>>, kw |-> kw] :
             kw \in {EmptyMap, Kw("ref", PyNone), Kw("opt", PyNone)}
                    \cup {Kw("ref", PyObj(j)) : j \in Allocated(os)}
                    \cup {Put(Kw("ref", PyObj(j)), "opt", PyObj(j)) :
                             j \in Allocated(os)}}
         \cup {[args |-> <<PyObj(j)>>, kw |-> EmptyMap] : j \in Allocated(os)}

\* records are constructed in the first steps of a run
CanCreate == nops < MaxOps - 2

\* obj = Cls(*args, **kw)
Create ==
    /\ CanCreate
    /\ HasFree(objs)
    /\ \E t \in Tables :
           \E a \in CtorArgs(objs, t) :
               Done("create", FreeSlot(objs), "", [t |-> "call", cls |-> t,
                                                   args |-> a.args, kw |-> a.kw],
                    construct(objs, db, FreeSlot(objs), t, a.args, a.kw))

\* obj.nope = val: a name that is not a declared field
AssignUndeclared ==
    /\ CanStep
    /\ \E i \in Allocated(objs) :
           Done("assign", i, "nope", PyInt(1),
                handle_obj_assign(objs, db, i, "nope", PyInt(1)))

FieldNext ==
    \/ Create
    \/ NewEmpty
    \/ Assign
    \/ AssignUndeclared
    \/ Save

FieldSpec == Init /\ [][FieldNext]_vars

\* ------------------------------------------- properties of construction
\* the fields of a record type that have a default producer
WithDefault(t) == {f \in FieldNames(t) : ORMField(t, f).factory}

\* C29: new_empty() sends no statement; the instance it returns is not
\* persisted (persisted identity < 0), its dirty map holds exactly the fields
\* with a default producer, each with its converted default, and the other
\* fields are unset; an unset field of an instance becomes set only by an
\* assignment to that field (or, for id, by the save that stores the
\* instance; or, for a foreign key loaded from a row, by its first read).
C29_NewEmptyUnsaved ==
    [][\A i \in Slots :
         /\ Did("new_empty", i) =>
               LET o == objs'[i]
               IN  /\ last'.err = "none"
                   /\ log' = <<>>
                   /\ db' = db
                   /\ o.live
                   /\ o.db_id < 0
                   /\ o.fk_ids = EmptyMap
                   /\ DOMAIN o.modified =
                          {ORMField(o.cls, f).db_name : f \in WithDefault(o.cls)}
                   /\ \A f \in WithDefault(o.cls) :
                          /\ o.attrs[f] = PyNone
                          /\ o.modified[ORMField(o.cls, f).db_name] = DBNull
                   /\ \A f \in FieldNames(o.cls) \ WithDefault(o.cls) :
                          o.attrs[f] = Unset
         /\ \A f \in FieldNames(objs[i].cls) :
               (/\ objs[i].cls # "free"
                /\ objs'[i].cls = objs[i].cls
                /\ objs[i].attrs[f] = Unset
                /\ objs'[i].attrs[f] # Unset) =>
                   \/ Did("assign", i) /\ last'.key = f /\ last'.err = "none"
                   \/ Did("save", i) /\ f = "id" /\ last'.err = "none"
                   \/ Did("read", i) /\ last'.key = f /\ f \in DOMAIN objs[i].fk_ids]_vars

\* a Child made by new_empty(): opt has its default, ref and id are unset
C29_Witness ==
    /\ last.op = "new_empty"
    /\ objs[last.i].cls = "child"
    /\ objs[last.i].db_id = -1
    /\ objs[last.i].modified = [c \in {"opt_id"} |-> DBNull]
    /\ objs[last.i].attrs["ref"] = Unset
    /\ objs[last.i].attrs["id"] = Unset
    /\ log = <<>>

\* the errors of init_obj: the arguments, or a value its field refuses
ArgumentErrors ==
    {"TypeError: keyword only", "TypeError: too many positional",
     "TypeError: multiple values", "TypeError: missing argument, no default",
     "TypeError: unexpected keyword", "ValueError: wrong type",
     "ValueError: not nullable", "ValueError: unsaved object", "AttributeError"}

\* C28: Cls(*args, **kw) takes for each declared field the value given, else
\* its default, else fails with "missing argument, no default" (id may be
\* left out); when it succeeds exactly one INSERT was sent and the instance
\* returned is persisted (identity >= 0, its row stored) with an empty dirty
\* map; when it fails nothing is stored and no instance is returned, and on
\* an argument error or an invalid value no statement was sent.
C28_ConstructedIsPersisted ==
    [][\A i \in Slots :
         Did("create", i) =>
            LET t == last'.val.cls
                kw == last'.val.kw
            IN  IF last'.err = "none"
                THEN /\ Len(log') = 1
                     /\ log'[1].op = "insert"
                     /\ objs'[i].cls = t
                     /\ objs'[i].live
                     /\ objs'[i].modified = EmptyMap
                     /\ objs'[i].db_id >= 0
                     /\ objs'[i].attrs["id"] = PyInt(objs'[i].db_id)
                     /\ \E r \in db'[t] \ db[t] : r["id"] = DBInt(objs'[i].db_id)
                     /\ \A f \in FieldNames(t) \ {"id"} :
                            objs'[i].attrs[f] =
                                IF f \in DOMAIN kw THEN kw[f]
                                ELSE IF last'.val.args # <<>> /\ f = fields(t)[2]
                                THEN last'.val.args[1]
                                ELSE PyNone
                ELSE /\ objs' = objs
                     /\ db' = db
                     /\ last'.err \in ArgumentErrors => log' = <<>>
                     /\ (\E f \in FieldNames(t) \ {"id"} :
                            /\ f \notin DOMAIN kw
                            /\ last'.val.args = <<>>
                            /\ ~ ORMField(t, f).factory)
                          => last'.err \in ArgumentErrors]_vars

\* the storage form of an assigned value
AssignedAs(os, v) == IF v = PyNone THEN DBNull ELSE StoredAs(os, v)

\* an assignment the field refuses
BadAssign(os, t, key, v) ==
    \/ key \notin FieldNames(t)
    \/ v = PyStr
    \/ key = "id" /\ (v.t # "int" \/ v.v < 0)
    \/ key # "id" /\ v = PyNone /\ ~ ORMField(t, key).nullable
    \/ /\ v.t = "obj"
       /\ \/ ORMField(t, key).kind # "fk"
          \/ os[v.v].cls # ORMField(t, key).target
          \/ ~ (os[v.v].live /\ check_has_id(os[v.v]))

\* C30: obj.key = val never sends a statement and touches no other instance;
\* accepted, it records the converted value in the dirty map under the
\* field's storage name and sets the in-memory attribute, and changes nothing
\* else of the instance; rejected (negative or non-int identity, wrong type,
\* None on a non-nullable field, undeclared field, a foreign key target that
\* is not a saved instance of the target type, a deleted instance), it
\* changes neither the dirty map nor the attribute.
C30_AssignRecordsDirty ==
    [][\A i \in Slots :
         Did("assign", i) =>
            LET o == objs[i]
                key == last'.key
                v == last'.val
            IN  /\ log' = <<>>
                /\ db' = db
                /\ \A j \in Slots \ {i} : objs'[j] = objs[j]
                /\ (last'.err # "none") <=>
                       (~ o.live \/ BadAssign(objs, o.cls, key, v))
                /\ IF last'.err = "none"
                   THEN objs'[i] =
                          [o EXCEPT !.attrs[key] = v,
                                    !.modified =
                                        Put(@, ORMField(o.cls, key).db_name,
                                            AssignedAs(objs, v))]
                   ELSE objs'[i] = o]_vars

\* a foreign key was assigned: the dirty map has the target's id under
\* ref_id and the attribute holds the target
C30_Witness ==
    /\ last.op = "assign"
    /\ last.err = "none"
    /\ last.key = "ref"
    /\ objs[last.i].attrs["ref"] = last.val
    /\ last.val.t = "obj"
    /\ "ref_id" \in DOMAIN objs[last.i].modified
    /\ objs[last.i].modified["ref_id"] = DBInt(objs[last.val.v].db_id)
    /\ objs[last.val.v].db_id >= 0

\* ------------------------------------------------- Database lifecycle
\* One thread configures, initializes and uses the Database object. A path
\* is Path(p); None is PyNone; DB_PATH unset or empty is Path("").
Path(p) == [t |-> "path", v |-> p]

Paths == {Path("/set"), Path("/env"), Path("/default")}

\* Database.__init__, in its environment: the files at the paths, SQLite's
\* thread safety, DB_PATH
OpenState(db_path, env, stat, threadsafe) ==
    [db_path |-> db_path, default_db_path |-> PyNone, conn |-> PyNone,
     init_hooks |-> <<>>, env |-> env, threadsafe |-> threadsafe,
     files |-> [q \in Paths |-> stat],
     created |-> 0, opened |-> PyNone, removed |-> {}, called |-> <<>>]

\* how a call ended and the Database afterwards
DbRes(e, d) == [err |-> e, d |-> d]

\* Database.set_default_db_path
set_default_db_path(d, path) ==
    IF d.db_path # PyNone THEN DbRes("AssertionError: path already set", d)
    ELSE IF d.default_db_path # PyNone
    THEN DbRes("AssertionError: default path already set", d)
    ELSE DbRes("none", [d EXCEPT !.default_db_path = path])

\* variant: a later override replaces the resolved path
set_db_path_Overwrite(d, path) ==
    IF path.v = "" THEN DbRes("SystemExit: invalid path", d)
    ELSE DbRes("none", [d EXCEPT !.db_path = path])

\* Database.set_db_path
set_db_path(d, path) ==
    IF d.db_path # PyNone THEN DbRes("AssertionError: path already set", d)
    ELSE IF path.v = "" THEN DbRes("SystemExit: invalid path", d)
    ELSE DbRes("none", [d EXCEPT !.db_path = path])

\* variant: DB_PATH is looked at only when there is no default
fallback_DefaultFirst(d) ==
    IF d.default_db_path # PyNone THEN d.default_db_path
    ELSE IF d.env.v # "" THEN d.env ELSE PyNone

\* _get_db_path: "os.getenv('DB_PATH', '') or self._default_db_path"
fallback(d) == IF d.env.v # "" THEN d.env ELSE d.default_db_path

\* Database._get_db_path: the path is resolved once and kept
get_db_path(d) ==
    IF d.db_path # PyNone THEN DbRes("none", d)
    ELSE IF fallback(d) = PyNone
    THEN DbRes("AssertionError: no path", d)
    ELSE DbRes("none", [d EXCEPT !.db_path = fallback(d)])

\* Database._check_db_file_exists: "ok", "missing", or no access
check_db_file_exists(d, path) == d.files[path]

\* variant: the connection is made before the thread safety is looked at
connect_to_db_at_Unchecked(d, path) ==
    IF ~ d.threadsafe
    THEN DbRes("SystemExit: thread safety",
               [d EXCEPT !.created = @ + 1, !.files[path] = "ok"])
    ELSE DbRes("none", [d EXCEPT !.created = @ + 1,
                                 !.conn = Conn(d.created + 1),
                                 !.files[path] = "ok", !.opened = path])

\* Database._connect_to_db, assigned to self._conn: sqlite3.connect creates
\* the file if it is not there
connect_to_db_at(d, path) ==
    IF ~ d.threadsafe THEN DbRes("SystemExit: thread safety", d)
    ELSE DbRes("none", [d EXCEPT !.created = @ + 1,
                                 !.conn = Conn(d.created + 1),
                                 !.files[path] = "ok", !.opened = path])

\* sorted(..., key=priority): a stable insertion by priority
RECURSIVE insert_sorted(_, _)
insert_sorted(sorted, item) ==
    IF sorted = <<>> THEN <<item>>
    ELSE IF sorted[1][1] <= item[1]
    THEN <<sorted[1]>> \o insert_sorted(Tail(sorted), item)
    ELSE <<item>> \o sorted

RECURSIVE sorted_hooks(_)
sorted_hooks(hooks) ==
    IF hooks = <<>> THEN <<>>
    ELSE insert_sorted(sorted_hooks(SubSeq(hooks, 1, Len(hooks) - 1)),
                       hooks[Len(hooks)])

\* variant: the hooks run in registration order
hook_order_Registered(hooks) == hooks

\* init: "sorted(self._init_hooks, key=lambda item: item[0])"
hook_order(hooks) == sorted_hooks(hooks)

\* init, the hook loop: each call is recorded with the connection it saw
run_hooks(d) ==
    LET hs == hook_order(d.init_hooks)
    IN  [d EXCEPT !.called = @ \o [k \in 1..Len(hs) |->
                                      [hook |-> hs[k], conn |-> d.conn]]]

\* variant: init does not look at the connection
already_loaded_Never(d) == FALSE

\* init: "if self._conn is not None"
already_loaded(d) == d.conn # PyNone

\* Database.init
init(d, force) ==
    LET r == get_db_path(d)
        path == r.d.db_path
    IN  IF r.err # "none" THEN r
        ELSE IF already_loaded(r.d)
        THEN DbRes("AssertionError: already loaded", r.d)
        ELSE IF check_db_file_exists(r.d, path) = "noaccess"
        THEN DbRes("SystemExit: unable to access", r.d)
        ELSE IF check_db_file_exists(r.d, path) = "ok" /\ ~ force
        THEN DbRes("SystemExit: already exists", r.d)
        ELSE
        LET d2 == IF check_db_file_exists(r.d, path) = "ok"
                  THEN [r.d EXCEPT !.files[path] = "missing",
                                   !.removed = @ \cup {path}]
                  ELSE r.d
            c == connect_to_db_at(d2, path)
        IN  IF c.err # "none" THEN c
            ELSE DbRes("none", run_hooks(c.d))

\* Database._get_connection, as one thread runs it
get_connection(d) ==
    IF d.conn # PyNone THEN DbRes("none", d)
    ELSE
    LET r == get_db_path(d)
        path == r.d.db_path
    IN  IF r.err # "none" THEN r
        ELSE IF check_db_file_exists(r.d, path) = "noaccess"
        THEN DbRes("SystemExit: unable to access", r.d)
        ELSE IF check_db_file_exists(r.d, path) = "missing"
        THEN DbRes("SystemExit: not created yet", r.d)
        ELSE connect_to_db_at(r.d, path)

\* the call ended as r says
DbDone(name, arg, r) ==
    /\ dbase' = r.d
    /\ last' = [op |-> name, i |-> 0, key |-> "", val |-> arg, err |-> r.err,
                ret |-> Unset]
    /\ nops' = nops + 1
    /\ UNCHANGED <<db, objs, log, queries, heap, threads, tdef>>

\* database.set_db_path(path)
SetDbPath ==
    /\ CanStep
    /\ \E path \in {Path("/set"), Path("")} :
           DbDone("set_db_path", path, set_db_path(dbase, path))

\* database.set_default_db_path(path)
SetDefaultDbPath ==
    /\ CanStep
    /\ DbDone("set_default_db_path", Path("/default"),
              set_default_db_path(dbase, Path("/default")))

\* @database.register_init_hook(priority=p)
RegisterInitHook ==
    /\ CanStep
    /\ \E priority \in 0..MaxVal :
           DbDone("register_init_hook", PyInt(priority),
                  DbRes("none",
                        [dbase EXCEPT !.init_hooks =
                            Append(@, <<priority, Len(dbase.init_hooks) + 1>>)]))

\* database.init(force=...)
DbInit ==
    /\ CanStep
    /\ \E force \in BOOLEAN :
           DbDone("init", [t |-> "bool", v |-> force], init(dbase, force))

\* database.exec_raw(...) / fetch_raw(...): the statement runs if a
\* connection is obtained
DbExec ==
    /\ CanStep
    /\ DbDone("exec", Unset, get_connection(dbase))

\* the other variables of a Database run
NoRecords ==
    /\ threads = <<>>
    /\ nops = 0
    /\ db = EmptyDB
    /\ objs = [i \in Slots |-> FreeObj]
    /\ log = <<>>
    /\ last = [op |-> "none", i |-> 0, key |-> "", val |-> Unset,
               err |-> "none", ret |-> Unset]
    /\ queries = <<>>
    /\ heap = <<>>
    /\ tdef = <<>>

\* Database() or Database(path), DB_PATH set or not, the files there, not
\* there or not accessible, SQLite thread safe or not
PathInit ==
    /\ \E db_path \in {PyNone, Path("/set")}, env \in {Path(""), Path("/env")},
          stat \in {"ok", "missing", "noaccess"}, threadsafe \in BOOLEAN :
           dbase = OpenState(db_path, env, stat, threadsafe)
    /\ NoRecords

PathNext ==
    \/ SetDbPath
    \/ SetDefaultDbPath
    \/ DbInit
    \/ DbExec

PathSpec == PathInit /\ [][PathNext]_vars

\* a Database with its path set, the file there or not, hooks to register
HookInit ==
    /\ \E stat \in {"ok", "missing"} :
           dbase = OpenState(Path("/set"), Path(""), stat, TRUE)
    /\ NoRecords

HookNext ==
    \/ RegisterInitHook
    \/ DbInit
    \/ DbExec

HookSpec == HookInit /\ [][HookNext]_vars

\* ------------------------------------- properties of the Database lifecycle
\* the step is a call of the named operation
Called(name) == nops' = nops + 1 /\ last'.op = name

\* the file system as the Database left it
Untouched == dbase'.files = dbase.files /\ dbase'.removed = dbase.removed

\* C22: init() on a Database whose connection is open raises a setup error,
\* deletes no file even with force, opens no second connection and runs no
\* hook
C22_InitWhenOpenRefused ==
    [][(Called("init") /\ dbase.conn # PyNone) =>
          /\ last'.err = "AssertionError: already loaded"
          /\ Untouched
          /\ dbase'.created = dbase.created
          /\ dbase'.conn = dbase.conn
          /\ dbase'.called = dbase.called]_vars

\* init(force=True) was refused on a lazily opened Database that has hooks
\* and a file
C22_Witness ==
    /\ last.op = "init"
    /\ last.val.v
    /\ last.err = "AssertionError: already loaded"
    /\ dbase.init_hooks # <<>>
    /\ dbase.called = <<>>
    /\ dbase.files[dbase.opened] = "ok"

\* the hook calls of the step
NewCalls == SubSeq(dbase'.called, Len(dbase.called) + 1, Len(dbase'.called))

\* C23: a successful init() calls every registered hook exactly once, with
\* the connection open, in non-decreasing priority order; a lazy open calls
\* no hook
C23_HooksOnceInPriorityOrder ==
    [][/\ (Called("init") /\ last'.err = "none") =>
             /\ Len(NewCalls) = Len(dbase.init_hooks)
             /\ \A h \in 1..Len(dbase.init_hooks) :
                    Cardinality({k \in 1..Len(NewCalls) :
                        NewCalls[k].hook = dbase.init_hooks[h]}) = 1
             /\ \A k \in 1..Len(NewCalls) :
                    /\ NewCalls[k].conn # PyNone
                    /\ NewCalls[k].conn = dbase'.conn
             /\ \A j, k \in 1..Len(NewCalls) :
                    j < k => NewCalls[j].hook[1] <= NewCalls[k].hook[1]
       /\ Called("exec") => dbase'.called = dbase.called]_vars

\* init() succeeded with hooks that were registered in decreasing priority
C23_Witness ==
    /\ last.op = "init"
    /\ last.err = "none"
    /\ Len(dbase.init_hooks) >= 2
    /\ dbase.init_hooks[1][1] > dbase.init_hooks[2][1]
    /\ Len(dbase.called) = Len(dbase.init_hooks)

\* C24: a resolved database path never changes, and set_db_path and
\* set_default_db_path raise a setup error once it is resolved
C24_ResolvedPathIsFinal ==
    [][dbase.db_path # PyNone =>
          /\ dbase'.db_path = dbase.db_path
          /\ (Called("set_db_path") \/ Called("set_default_db_path")) =>
                 /\ last'.err = "AssertionError: path already set"
                 /\ dbase' = dbase]_vars

\* set_db_path was refused after an open resolved the path from DB_PATH
C24_Witness ==
    /\ last.op = "set_db_path"
    /\ last.err = "AssertionError: path already set"
    /\ dbase.db_path = Path("/env")

\* the override, else the non-empty DB_PATH, else the default
Expected ==
    IF dbase.db_path # PyNone THEN dbase.db_path
    ELSE IF dbase.env.v # "" THEN dbase.env
    ELSE dbase.default_db_path

\* C25: the database is opened at the override if set, else at the
\* non-empty DB_PATH, else at the default; with none of them the open fails
\* with a setup error and no connection is created
C25_PathPriority ==
    [][((Called("init") \/ Called("exec")) /\ dbase.conn = PyNone) =>
          /\ Expected = PyNone =>
                 /\ last'.err = "AssertionError: no path"
                 /\ dbase'.conn = PyNone
                 /\ dbase'.created = dbase.created
          /\ dbase'.conn # PyNone => dbase'.opened = Expected]_vars

\* the database was opened at DB_PATH although a default was set
C25_Witness ==
    /\ dbase.conn # PyNone
    /\ dbase.opened = Path("/env")
    /\ dbase.default_db_path = Path("/default")

\* the fatal exits of an open
FatalExits ==
    {"SystemExit: unable to access", "SystemExit: not created yet",
     "SystemExit: thread safety", "SystemExit: already exists"}

\* C26: an open that ends in a fatal exit creates no connection, and
\* init() without force removes no existing file
C26_FatalExitOpensNothing ==
    [][/\ ((Called("init") \/ Called("exec")) /\ last'.err \in FatalExits) =>
             /\ dbase'.conn = PyNone
             /\ dbase'.created = dbase.created
       /\ (Called("init") /\ ~ last'.val.v) =>
             /\ dbase'.removed = dbase.removed
             /\ \A q \in Paths :
                    dbase.files[q] = "ok" => dbase'.files[q] = "ok"]_vars

\* init() without force stopped at an existing file, which is still there
C26_Witness ==
    /\ last.op = "init"
    /\ ~ last.val.v
    /\ last.err = "SystemExit: already exists"
    /\ dbase.files[dbase.db_path] = "ok"
    /\ dbase.conn = PyNone

\* ------------------------------------------------------ Database writes
\* Database.insert and Database.update_equal called on the tables of the
\* schema. An exception is its type and its message; a message is a
\* sequence of parts.
Exc(type, msg) == [type |-> type, msg |-> msg]

NoExc == Exc("none", <<>>)

\* SQLite's messages for a failed constraint
ConstraintFailed(kind, t, col) ==
    <<kind, " constraint failed", ": ", t, ".", col>>

ForeignKeyFailed == <<"FOREIGN KEY", " constraint failed">>

\* str.startswith
startswith(msg, prefix) ==
    /\ Len(msg) >= Len(prefix)
    /\ SubSeq(msg, 1, Len(prefix)) = prefix

\* "not null" columns of the row that hold NULL
NotNullFailed(t, row) ==
    {ORMField(t, f).db_name : f \in {g \in FieldNames(t) :
        ~ ORMField(t, g).nullable /\ row[ORMField(t, g).db_name] = DBNull}}

\* unique columns of the row that hold the value of another row; SQLite
\* names the primary key first
UniqueFailed(t, others, row) ==
    LET cols == {ORMField(t, f).db_name : f \in {g \in FieldNames(t) :
                    /\ ORMField(t, g).unique
                    /\ row[ORMField(t, g).db_name] # DBNull
                    /\ \E o \in others : o[ORMField(t, g).db_name] =
                                         row[ORMField(t, g).db_name]}}
    IN  IF "id" \in cols THEN "id" ELSE CHOOSE c \in cols : TRUE

\* the row an insert statement writes
InsertedRow(d, t, values) ==
    [c \in db_cols(t) |->
        IF c \in DOMAIN values THEN values[c]
        ELSE IF c = "id" THEN DBInt(NextRowId(d[t])) ELSE DBNull]

\* exec_raw of the insert statement: what SQLite raises, the row id, the
\* tables afterwards
exec_insert(d, t, values) ==
    LET row == InsertedRow(d, t, values)
        r == SqlInsert(d, t, values)
    IN  IF NotNullFailed(t, row) # {}
        THEN [raised |-> Exc("IntegrityError",
                  ConstraintFailed("NOT NULL", t,
                                   CHOOSE c \in NotNullFailed(t, row) : TRUE)),
              ret |-> Unset, db |-> d]
        ELSE IF r.err = "unique"
        THEN [raised |-> Exc("IntegrityError",
                  ConstraintFailed("UNIQUE", t, UniqueFailed(t, d[t], row))),
              ret |-> Unset, db |-> d]
        ELSE IF r.err = "fk"
        THEN [raised |-> Exc("IntegrityError", ForeignKeyFailed),
              ret |-> Unset, db |-> d]
        ELSE [raised |-> NoExc, ret |-> PyInt(exec_raw(r.rowid)), db |-> r.db]

\* exec_raw of "update t set cols where id = k"
exec_update(d, t, k, values) ==
    LET hit == {r \in d[t] : r["id"] = DBInt(k)}
        old == CHOOSE r \in hit : TRUE
        new == [c \in db_cols(t) |->
                   IF c \in DOMAIN values THEN values[c] ELSE old[c]]
        r == SqlUpdate(d, t, k, values)
    IN  IF values = EmptyMap
        THEN [raised |-> Exc("OperationalError", <<"syntax error">>),
              ret |-> Unset, db |-> d]
        ELSE IF hit # {} /\ NotNullFailed(t, new) # {}
        THEN [raised |-> Exc("IntegrityError",
                  ConstraintFailed("NOT NULL", t,
                                   CHOOSE c \in NotNullFailed(t, new) : TRUE)),
              ret |-> Unset, db |-> d]
        ELSE IF r.err = "unique"
        THEN [raised |-> Exc("IntegrityError",
                  ConstraintFailed("UNIQUE", t,
                                   UniqueFailed(t, d[t] \ {old}, new))),
              ret |-> Unset, db |-> d]
        ELSE IF r.err = "fk"
        THEN [raised |-> Exc("IntegrityError", ForeignKeyFailed),
              ret |-> Unset, db |-> d]
        ELSE [raised |-> NoExc, ret |-> PyNone, db |-> r.db]

\* variant: every integrity failure is re-raised as DBUniqueError
check_AnyIntegrity(raised) ==
    IF raised.type = "IntegrityError"
    THEN Exc("DBUniqueError", raised.msg)
    ELSE raised

\* DBUniqueError.check: what leaves the "with" block
check(raised) ==
    IF /\ raised.type = "IntegrityError"
       /\ startswith(raised.msg, <<"UNIQUE", " constraint failed">>)
    THEN Exc("DBUniqueError", raised.msg)
    ELSE raised

\* Database.insert (with _insert_parts): [exc, sent, ret, db]
insert(d, t, values) ==
    IF values = EmptyMap
    THEN [exc |-> Exc("AssertionError", <<"No values provided">>),
          sent |-> <<>>, ret |-> Unset, db |-> d]
    ELSE
    LET r == exec_insert(d, t, values)
    IN  [exc |-> check(r.raised),
         sent |-> <<[op |-> "insert", table |-> t, values |-> values,
                     raised |-> r.raised]>>,
         ret |-> r.ret, db |-> r.db]

\* Database.update_equal(t, 'id', k, new_values)
update_equal(d, t, k, new_values) ==
    LET r == exec_update(d, t, k, new_values)
    IN  [exc |-> check(r.raised),
         sent |-> <<[op |-> "update", table |-> t, id |-> k,
                     values |-> new_values, raised |-> r.raised]>>,
         ret |-> r.ret, db |-> r.db]

\* the call ended as r says: the statement sent is logged with what SQLite
\* raised, the caller sees r.exc
Wrote(name, t, r) ==
    /\ db' = r.db
    /\ log' = r.sent
    /\ last' = [op |-> name, i |-> 0, key |-> t, val |-> Unset,
                err |-> r.exc.type,
                ret |-> IF r.exc.type = "none" THEN r.ret
                        ELSE [t |-> "msg", v |-> r.exc.msg]]
    /\ nops' = nops + 1
    /\ UNCHANGED <<objs, queries, heap, threads, dbase, tdef>>

\* no value for the column, or one of the values
Maybe(col, values) == {EmptyMap} \cup {Put(EmptyMap, col, v) : v \in values}

\* value dicts for a table
WriteValues(t) ==
    IF t = "parent"
    THEN {a @@ b : a \in Maybe("id", {DBInt(k) : k \in Ids}),
                   b \in Maybe("uval", {DBNull} \cup {DBInt(v) : v \in Vals})}
    ELSE {a @@ b : a \in Maybe("id", {DBInt(1)}),
                   b \in Maybe("ref_id", {DBInt(k) : k \in Ids \ {0}})}

CanWrite == nops < MaxOps - 2

\* database.insert(t, values)
Insert ==
    /\ CanWrite
    /\ \E t \in Tables : \E values \in WriteValues(t) :
           Wrote("insert", t, insert(db, t, values))

\* database.update_equal(t, 'id', k, values)
UpdateEqual ==
    /\ CanWrite
    /\ \E t \in Tables : \E k \in Ids : \E values \in WriteValues(t) :
           Wrote("update_equal", t, update_equal(db, t, k, values))

WriteNext ==
    \/ Insert
    \/ UpdateEqual

WriteSpec == Init /\ [][WriteNext]_vars

\* C21: in insert and update_equal an integrity failure of SQLite whose
\* message starts with 'UNIQUE constraint failed' reaches the caller as
\* DBUniqueError with the same message; every other integrity failure
\* reaches the caller as it was raised
C21_UniqueFailureIsTyped ==
    [][((Called("insert") \/ Called("update_equal"))
          /\ log' # <<>> /\ log'[1].raised.type = "IntegrityError") =>
          /\ last'.ret.v = log'[1].raised.msg
          /\ last'.err =
                 IF /\ Len(log'[1].raised.msg) >= 2
                    /\ log'[1].raised.msg[1] = "UNIQUE"
                    /\ log'[1].raised.msg[2] = " constraint failed"
                 THEN "DBUniqueError" ELSE "IntegrityError"]_vars

\* update_equal raised DBUniqueError for the uval column
C21_Witness ==
    /\ last.op = "update_equal"
    /\ last.err = "DBUniqueError"
    /\ log # <<>>
    /\ log[1].raised = Exc("IntegrityError",
                           ConstraintFailed("UNIQUE", "parent", "uval"))
    /\ last.ret.v = log[1].raised.msg

\* --------------------------------------------- record type declarations
\* "class Name(DBObject, table=...)" statements. A table argument is a
\* sequence of parts, " " a run of whitespace; the registry TableDef.tables
\* is an insertion-ordered dict from the table name to the class object; a
\* class object is its __name__ and the order it was created in.
RECURSIVE lstrip(_)
lstrip(s) ==
    IF s # <<>> /\ s[1] = " " THEN lstrip(Tail(s)) ELSE s

RECURSIVE rstrip(_)
rstrip(s) ==
    IF s # <<>> /\ s[Len(s)] = " " THEN rstrip(SubSeq(s, 1, Len(s) - 1))
    ELSE s

\* str.strip
strip(s) == rstrip(lstrip(s))

\* TableDef.prepare_class_dict on the class body: "ok" or the error
prepare_class_dict(body) ==
    IF body = "reserved" THEN "ValueError: reserved name"
    ELSE IF body = "order" THEN "TypeError: non-default follows default"
    ELSE "ok"

\* what a declaration gives: the error, the type it names, the registry
DeclRes(e, named, reg) == [err |-> e, named |-> named, reg |-> reg]

\* variant: the later declaration takes the table name over
create_Replace(reg, target_type, table_name) ==
    DeclRes("none", "",
            [reg EXCEPT !.tables =
                DictUpdate(@, <<<<table_name, target_type>>>>)])

\* TableDef.create
create(reg, target_type, table_name) ==
    IF table_name \in DictKeys(reg.tables)
    THEN DeclRes("ValueError: table name already used",
                 reg.tables[DictGet(reg.tables, table_name)][2].name, reg)
    ELSE DeclRes("none", "",
                 [reg EXCEPT !.tables =
                     DictUpdate(@, <<<<table_name, target_type>>>>)])

\* DBObjectMeta.__new__(mcs, name, (DBObject,), body, table=table)
new(reg, name, table, body) ==
    IF strip(table) = <<>> THEN DeclRes("TypeError: missing table", "", reg)
    ELSE IF body = "slots" THEN DeclRes("ValueError: __slots__ set", "", reg)
    ELSE IF prepare_class_dict(body) # "ok"
    THEN DeclRes(prepare_class_dict(body), "", reg)
    ELSE
    LET new_cls == [name |-> name, serial |-> reg.made + 1]
    IN  create([reg EXCEPT !.made = @ + 1], new_cls, strip(table))

ClassNames == {"DupName1", "DupName2"}

TableArgs == {<<>>, <<" ">>, <<"dupname">>, <<" ", "dupname", " ">>,
              <<"other">>}

Bodies == {"fields", "reserved", "order", "slots"}

\* class name(DBObject, table=table): body
Declare ==
    /\ CanStep
    /\ \E name \in ClassNames, table \in TableArgs, body \in Bodies :
           LET r == new(tdef, name, table, body)
           IN  /\ tdef' = r.reg
               /\ last' = [op |-> "class", i |-> 0, key |-> body,
                           val |-> [t |-> "decl", name |-> name,
                                    table |-> table],
                           err |-> r.err,
                           ret |-> [t |-> "named", v |-> r.named]]
               /\ nops' = nops + 1
    /\ UNCHANGED <<db, objs, log, queries, heap, threads, dbase>>

\* no record type declared yet
DeclInit ==
    /\ tdef = [tables |-> <<>>, made |-> 0]
    /\ db = EmptyDB
    /\ objs = [i \in Slots |-> FreeObj]
    /\ log = <<>>
    /\ last = [op |-> "none", i |-> 0, key |-> "", val |-> Unset,
               err |-> "none", ret |-> Unset]
    /\ nops = 0
    /\ queries = <<>>
    /\ heap = <<>>
    /\ threads = <<>>
    /\ dbase = <<>>

DeclNext == Declare

DeclSpec == DeclInit /\ [][DeclNext]_vars

\* the step declares a type whose table name is registered
Redeclared ==
    /\ Called("class")
    /\ \E k \in 1..Len(tdef.tables) :
           tdef.tables[k][1] = strip(last'.val.table)

\* the type registered under the table name of the step
FirstType ==
    (CHOOSE pair \in {tdef.tables[k] : k \in 1..Len(tdef.tables)} :
         pair[1] = strip(last'.val.table))[2]

\* the declaration fails, nothing is sent to a database and the registry
\* is as it was
DeclarationRefused ==
    /\ last'.err # "none"
    /\ tdef'.tables = tdef.tables
    /\ UNCHANGED <<db, log, dbase>>

\* the registry holds at most one type per table name
OneTypePerName ==
    \A j, k \in 1..Len(tdef.tables) :
        tdef.tables[j][1] = tdef.tables[k][1] => j = k

C32_DeletedReadFails ==
    [][\A i \in Slots :
         (Did("read", i) /\ IsDeleted(objs[i])) =>
            /\ last'.err = "ValueError: deleted"
            /\ last'.ret = Unset]_vars

\* C33: save() on an instance that delete() has invalidated re-creates the
\* row in the database
C33_SaveAfterDeleteRecreates ==
    [][\A i \in Slots :
         (Did("save", i) /\ IsDeleted(objs[i])) =>
            /\ last'.err = "none"
            /\ \E r \in db'[objs[i].cls] : r \notin db[objs[i].cls]]_vars

\* C39: an unpersisted instance whose id was set to k >= 0 is, after a
\* successful save(), persisted with identity k: id and persisted identity
\* equal k, the identity is stable, and a further save() sends nothing
C39_ExplicitIdIsKept ==
    [][\A i \in Slots :
         (/\ Did("save", i)
          /\ objs[i].live
          /\ objs[i].db_id < 0
          /\ "id" \in DOMAIN objs[i].modified
          /\ objs[i].modified["id"].v >= 0
          /\ last'.err = "none") =>
            /\ objs'[i].db_id = objs[i].modified["id"].v
            /\ objs'[i].attrs["id"] = PyInt(objs[i].modified["id"].v)
            /\ check_has_id(objs'[i])
            /\ save_obj(objs', db', i).err = "none"
            /\ save_obj(objs', db', i).log = <<>>]_vars

\* ---------------------------------------------- foreign key targets
\* persisted, and no unsaved assignment of its id
Stable(o) == o.db_id >= 0 /\ "id" \notin DOMAIN o.modified

\* v is a live instance of the type the foreign key `key` of t refers to
IsTarget(os, t, key, v) ==
    /\ ORMField(t, key).kind = "fk"
    /\ v.t = "obj"
    /\ os[v.v].live
    /\ os[v.v].cls = ORMField(t, key).target

\* C35: a foreign key accepts a target instance only if it is persisted
\* and its id is not dirty; an assignment or a construction with another
\* target is rejected as an invalid value, and the dirty map of the
\* referencing instance stays as it was
C35_FKTargetNeedsStableId ==
    [][/\ \A i \in Slots :
            (/\ Did("assign", i)
             /\ objs[i].live
             /\ last'.key \in FieldNames(objs[i].cls)
             /\ IsTarget(objs, objs[i].cls, last'.key, last'.val)) =>
               IF Stable(objs[last'.val.v])
               THEN /\ last'.err = "none"
                    /\ objs'[i].modified[ORMField(objs[i].cls, last'.key).db_name]
                          = DBInt(objs[last'.val.v].db_id)
               ELSE /\ last'.err = "ValueError: unsaved object"
                    /\ objs'[i] = objs[i]
       /\ (/\ last'.op = "create"
           /\ nops' = nops + 1
           /\ last'.val.args = <<>>
           /\ "ref" \in DOMAIN last'.val.kw
           /\ IsTarget(objs, last'.val.cls, "ref", last'.val.kw["ref"])
           /\ ~ Stable(objs[last'.val.kw["ref"].v])) =>
             /\ last'.err = "ValueError: unsaved object"
             /\ log' = <<>>
             /\ objs' = objs
             /\ db' = db]_vars

\* a persisted Parent whose id was reassigned and not saved was refused as
\* the ref of a Child
C35_Witness ==
    /\ last.op = "assign"
    /\ last.key = "ref"
    /\ last.err = "ValueError: unsaved object"
    /\ last.val.t = "obj"
    /\ objs[last.val.v].db_id >= 0
    /\ "id" \in DOMAIN objs[last.val.v].modified
    /\ "ref_id" \notin DOMAIN objs[last.i].modified

\* ------------------------------------------------- reading attributes
\* instances are made in the first steps of a run, then assigned, read and
\* saved
MakeEmpty == CanCreate /\ NewEmpty

Load == CanCreate /\ GetOne

ReadNext ==
    \/ MakeEmpty
    \/ Load
    \/ Assign
    \/ Read
    \/ Save

ReadSpec == Init /\ [][ReadNext]_vars

FKNames(os, i) ==
    {f \in FieldNames(os[i].cls) : ORMField(os[i].cls, f).kind = "fk"}

\* C40: a foreign key assigned on an instance loaded from a row, before or
\* after its first read, takes the place of the pending id: the attribute
\* holds the assigned instance (or None) until the next assignment, and a
\* read returns what the attribute holds without a query
C40_AssignedFKSupersedesPending ==
    [][\A i \in Allocated(objs) : \A key \in FKNames(objs, i) :
         /\ (Did("assign", i) /\ last'.key = key /\ last'.err = "none") =>
               objs'[i].attrs[key] = last'.val
         /\ (/\ objs[i].attrs[key] # Unset
             /\ ~ (Did("assign", i) /\ last'.key = key /\ last'.err = "none")) =>
               objs'[i].attrs[key] = objs[i].attrs[key]
         /\ (Did("read", i) /\ last'.key = key /\ objs[i].attrs[key] # Unset) =>
               /\ last'.err = "none"
               /\ last'.ret = objs[i].attrs[key]
               /\ log' = <<>>]_vars

\* a read returned, without a query, an assigned Parent that is not the row
\* of the pending id, after another foreign key of the instance was resolved
C40_Witness ==
    /\ last.op = "read"
    /\ last.err = "none"
    /\ log = <<>>
    /\ last.key \in DOMAIN objs[last.i].fk_ids
    /\ last.ret.t = "obj"
    /\ objs[last.ret.v].db_id # objs[last.i].fk_ids[last.key]

\* ------------------------------------------------ single-result fetch
\* DBObject.get_one(**kwargs): the first two items of iter(get_all(**kwargs));
\* the instance found goes to slot k
get_one_by(os, d, t, kwargs, k) ==
    LET g == get_all(<<>>, t, kwargs)
        b == build_query(os, g.heap, g.query)
    IN  IF b.err # "none" THEN Res(b.err, os, d, <<>>, Unset)
        ELSE get_one(os, d, b.val, k)

\* "except KeyError"
IsKeyError(e) == e \in {"KeyError: no items", "KeyError: fk_ids"}

\* variant: every error of get_one is turned into None
get_opt_AnyError(os, d, t, kwargs, k) ==
    LET r == get_one_by(os, d, t, kwargs, k)
    IN  IF r.err # "none" THEN Res("none", os, d, r.log, PyNone) ELSE r

\* DBObject.get_opt(**kwargs)
get_opt(os, d, t, kwargs, k) ==
    LET r == get_one_by(os, d, t, kwargs, k)
    IN  IF IsKeyError(r.err) THEN Res("none", os, d, r.log, PyNone) ELSE r

\* keyword arguments of a fetch: none, an id, a value, a bound, a value of
\* the wrong type, a comparator or a name that does not exist, an instance
FetchArgs(os, t) ==
    {<<>>} \cup {<< <<<<"id">>, PyInt(n)>> >> : n \in Ids}
    \cup (IF t = "parent"
          THEN {<< <<<<"uval">>, PyInt(1)>> >>, << <<<<"uval">>, PyStr>> >>,
                << <<<<"uval", "gte">>, PyInt(1)>> >>,
                << <<<<"uval", "xx">>, PyInt(1)>> >>,
                << <<<<"nope">>, PyInt(1)>> >>}
          ELSE {<< <<<<"ref">>, PyObj(j)>> >> : j \in Allocated(os)})

Fetched(name, t, kwargs, r) ==
    Done(name, FreeSlot(objs), "", [t |-> "call", cls |-> t, kw |-> kwargs], r)

\* obj = Cls.get_one(**kwargs)
GetOneBy ==
    /\ CanStep
    /\ HasFree(objs)
    /\ \E t \in Tables : \E kwargs \in FetchArgs(objs, t) :
           Fetched("get_one", t, kwargs,
                   get_one_by(objs, db, t, kwargs, FreeSlot(objs)))

\* obj = Cls.get_opt(**kwargs)
GetOpt ==
    /\ CanStep
    /\ HasFree(objs)
    /\ \E t \in Tables : \E kwargs \in FetchArgs(objs, t) :
           Fetched("get_opt", t, kwargs,
                   get_opt(objs, db, t, kwargs, FreeSlot(objs)))

FetchNext ==
    \/ GetOneBy
    \/ GetOpt

FetchSpec == Init /\ [][FetchNext]_vars

\* the rows of the step's table that match the step's keyword arguments
Matched ==
    Matching(db[last'.val.cls],
             build_filter(objs, last'.val.cls, last'.val.kw).val)

\* the step is a fetch whose keyword arguments make a filter
Fetch(name) ==
    /\ Called(name)
    /\ build_filter(objs, last'.val.cls, last'.val.kw).err = "none"

\* C31: get_one returns the matching instance when one row matches, raises
\* KeyError when none matches and ValueError when several match; get_opt
\* returns None exactly when get_one raises the KeyError, and gives what
\* get_one gives (the instance, or the ValueError for several rows)
\* otherwise
C31_SingleResult ==
    [][/\ Fetch("get_one") =>
             /\ Cardinality(Matched) = 0 =>
                    last'.err = "KeyError: no items" /\ objs' = objs
             /\ Cardinality(Matched) > 1 =>
                    last'.err = "ValueError: multiple items" /\ objs' = objs
             /\ Cardinality(Matched) = 1 =>
                    /\ last'.err = "none"
                    /\ last'.ret = PyObj(last'.i)
                    /\ objs'[last'.i] \in
                          {obj_from_db(last'.val.cls, r) : r \in Matched}
       /\ Fetch("get_opt") =>
             /\ Cardinality(Matched) = 0 =>
                    /\ last'.err = "none"
                    /\ last'.ret = PyNone
                    /\ objs' = objs
             /\ Cardinality(Matched) > 1 =>
                    last'.err = "ValueError: multiple items" /\ objs' = objs
             /\ Cardinality(Matched) = 1 =>
                    /\ last'.err = "none"
                    /\ last'.ret = PyObj(last'.i)
                    /\ objs'[last'.i] \in
                          {obj_from_db(last'.val.cls, r) : r \in Matched}
       /\ Called("get_opt") =>
             (last'.ret = PyNone <=> Fetch("get_opt") /\ Cardinality(Matched) = 0)
       /\ (Called("get_one") \/ Called("get_opt")) => db' = db]_vars

\* get_opt found no row for an id and returned None after one query
C31_Witness ==
    /\ last.op = "get_opt"
    /\ last.err = "none"
    /\ last.ret = PyNone
    /\ Len(log) = 1
    /\ db["parent"] # {}

\* ------------------------------------------ field list of any declaration
\* One thread uses a record type whose declaration may be wrong. A declared
\* field is <<name, type>>; a name is a sequence of parts, so that the
\* storage name of a foreign key is the name with "_id" appended.
DeclaredFields ==
    {<< <<"a">>, "int" >>, << <<"x">>, "SomeType" >>, << <<"x">>, "int | str" >>,
     << <<"x">>, "list[int]" >>, << <<"p">>, "Parent" >>,
     << <<"p", "_id">>, "int" >>}

\* class bodies of one or two fields
Declarations ==
    {<<f>> : f \in DeclaredFields}
    \cup {d \in {<<f, g>> : f \in DeclaredFields, g \in DeclaredFields} :
              d[1][1] # d[2][1]}

\* TableDef.create, for a class body
DeclaredTableDef(decl) ==
    [decl |-> decl, fields |-> <<>>, db_cols |-> <<>>,
     raw_field_attrs |-> {decl[k][1] : k \in 1..Len(decl)}]

\* TableDef._extract_nullable: the error, if any
extract_nullable(type) ==
    IF type = "int | str" THEN "ValueError: union of types"
    ELSE IF type = "list[int]" THEN "ValueError: parametrized type"
    ELSE "none"

\* ORMField.from_definition: the error, or the storage name of the field
from_definition(name, type) ==
    IF type = "Parent" THEN Ok(name \o <<"_id">>)
    ELSE IF type = "int" THEN Ok(name)
    ELSE Err("TypeError: no converter registered")

\* _setup_if_needed, the loop from annotation k on
RECURSIVE setup_loop(_, _, _)
setup_loop(td, k, db_col_names) ==
    IF k > Len(td.decl)
    THEN [err |-> IF td.raw_field_attrs = {} THEN "none" ELSE "AssertionError",
          td |-> td]
    ELSE
    LET name == td.decl[k][1]
        type == td.decl[k][2]
        popped == [td EXCEPT !.raw_field_attrs = @ \ {name}]
        f == from_definition(name, type)
    IN  IF extract_nullable(type) # "none"
        THEN [err |-> extract_nullable(type), td |-> td]
        ELSE IF f.err # "none" THEN [err |-> f.err, td |-> popped]
        ELSE IF f.val \in db_col_names
        THEN [err |-> "ValueError: same database field name", td |-> popped]
        ELSE setup_loop([popped EXCEPT !.fields = Append(@, name),
                                       !.db_cols = Append(@, f.val)],
                        k + 1, db_col_names \cup {f.val})

\* TableDef._setup_if_needed, run by one thread
setup_if_needed(td) ==
    IF td.fields # <<>> THEN [err |-> "none", td |-> td]
    ELSE setup_loop([td EXCEPT !.fields = <<<<"id">>>>,
                               !.db_cols = <<<<"id">>>>], 1, {})

\* an operation of the record type (new_empty, get_db_fields for the
\* table creation hook, a query): it goes on with the field list the
\* setup left, if the setup did not raise
UseType ==
    /\ CanStep
    /\ \E name \in {"new_empty", "get_db_fields", "get_matching"} :
           LET r == setup_if_needed(tdef)
           IN  /\ tdef' = r.td
               /\ last' = [op |-> name, i |-> 0, key |-> "", val |-> Unset,
                           err |-> r.err,
                           ret |-> IF r.err = "none"
                                   THEN [t |-> "fields", v |-> r.td.fields]
                                   ELSE Unset]
               /\ nops' = nops + 1
    /\ UNCHANGED <<db, objs, log, queries, heap, threads, dbase>>

BuildInit ==
    /\ \E decl \in Declarations : tdef = DeclaredTableDef(decl)
    /\ db = EmptyDB
    /\ objs = [i \in Slots |-> FreeObj]
    /\ log = <<>>
    /\ last = [op |-> "none", i |-> 0, key |-> "", val |-> Unset,
               err |-> "none", ret |-> Unset]
    /\ nops = 0
    /\ queries = <<>>
    /\ heap = <<>>
    /\ threads = <<>>
    /\ dbase = <<>>

BuildNext == UseType

BuildSpec == BuildInit /\ [][BuildNext]_vars

\* the errors of a wrong declaration
DeclarationErrors ==
    {"ValueError: union of types", "ValueError: parametrized type",
     "TypeError: no converter registered",
     "ValueError: same database field name"}

\* C38: once the lazy build of the field list has failed with a
\* declaration error, every later operation on the record type fails with
\* a declaration error, and no operation goes on with a field list that
\* holds only part of the declared fields
C38_FailedBuildFailsAgain ==
    [][(nops' = nops + 1) =>
          /\ last.err \in DeclarationErrors =>
                 last'.err \in DeclarationErrors
          /\ last'.err = "none" =>
                 last'.ret.v = <<<<"id">>>> \o
                     [k \in 1..Len(tdef.decl) |-> tdef.decl[k][1]]]_vars

\* ---------------------------------------------- value fields and storage
\* A record type with one field of each converter, as TestData1 and
\* TestData2 of the ORM tests have:
\*   class Rec(DBObject, table='rec'):
\*       b: bool;  i: int;  d: datetime.datetime;  f: float
RecFields == <<"b", "i", "d", "f">>

\* the Python type of each field
RecType(key) ==
    CASE key = "b" -> "bool" [] key = "i" -> "int"
      [] key = "d" -> "datetime" [] key = "f" -> "float"

\* Python values: bool, float, and a datetime, which is a wall clock
\* reading (in hours) and, when it is aware, the offset of its zone from UTC
PyBool(x) == [t |-> "bool", v |-> x]
PyFloat(n) == [t |-> "float", v |-> n]
PyDateTime(wall, aware, off) ==
    [t |-> "datetime", wall |-> wall, aware |-> aware, off |-> off]

\* a REAL value of SQLite
DBReal(n) == [t |-> "real", v |-> n]

\* offsets from UTC of the local zone of the process
LocalOffsets == {0, 1}

\* datetime.timestamp(): a naive datetime is taken as local time
timestamp(py_val, local) ==
    py_val.wall - (IF py_val.aware THEN py_val.off ELSE local)

\* datetime.fromtimestamp(db_val): naive, in local time
fromtimestamp(db_val, local) == PyDateTime(db_val + local, FALSE, 0)

\* converter.py_to_db of the converter registered for the type
py_to_db(py_type, py_val, local) ==
    CASE py_type = "bool" -> DBInt(IF py_val.v THEN 1 ELSE 0)
      [] py_type = "datetime" -> DBReal(timestamp(py_val, local))
      [] OTHER -> DBInt(py_val.v)

\* converter.db_to_py of the converter registered for the type
db_to_py(py_type, db_val, local) ==
    CASE py_type = "bool" -> PyBool(db_val.v # 0)
      [] py_type = "datetime" -> fromtimestamp(db_val.v, local)
      [] OTHER -> PyInt(db_val.v)

\* ORMValueField._convert_to_db and ORMFloatValueField._convert_to_db
value_convert_to_db(key, value, local) ==
    IF RecType(key) = "float"
    THEN IF value.t \in {"int", "float", "bool"}
         THEN Ok(IF value.t = "float" THEN DBReal(value.v)
                 ELSE IF value.t = "bool" THEN DBInt(IF value.v THEN 1 ELSE 0)
                 ELSE DBInt(value.v))
         ELSE Err("ValueError: type")
    ELSE IF value.t # RecType(key) THEN Err("ValueError: type")
    ELSE Ok(py_to_db(RecType(key), value, local))

\* what a column of the table keeps of a value: a 'real' column stores an
\* integer as a real, the other columns store the value as it is
stored(key, db_val) ==
    IF RecType(key) \in {"float", "datetime"} /\ db_val.t = "int"
    THEN DBReal(db_val.v) ELSE db_val

\* ORMValueField._convert_to_py_and_set and the one of ORMFloatValueField
value_convert_to_py(key, db_val, local) ==
    IF RecType(key) = "float" THEN PyFloat(db_val.v)
    ELSE db_to_py(RecType(key), db_val, local)

\* Python ==, with the type of the value where the field is not a float
py_equal(key, a, b) ==
    IF RecType(key) = "datetime"
    THEN /\ a.aware = b.aware
         /\ IF a.aware THEN a.wall - a.off = b.wall - b.off
            ELSE a.wall = b.wall
    ELSE IF RecType(key) = "float"
    THEN (IF a.t = "bool" THEN (IF a.v THEN 1 ELSE 0) ELSE a.v)
         = (IF b.t = "bool" THEN (IF b.v THEN 1 ELSE 0) ELSE b.v)
    ELSE a = b

\* values a caller builds an instance from: a base set and the sets that
\* differ from it in one field
RecBase ==
    [b |-> PyBool(TRUE), i |-> PyInt(1), d |-> PyDateTime(0, FALSE, 0),
     f |-> PyFloat(1)]

RecValues ==
    {RecBase, [RecBase EXCEPT !.b = PyBool(FALSE)], [RecBase EXCEPT !.b = PyInt(1)],
     [RecBase EXCEPT !.f = PyInt(1)], [RecBase EXCEPT !.f = PyBool(TRUE)],
     [RecBase EXCEPT !.d = PyInt(1)]}
    \cup {[RecBase EXCEPT !.i = PyInt(n)] : n \in Vals}
    \cup {[RecBase EXCEPT !.d = PyDateTime(w, a, o)] :
              w \in {0, 1}, a \in BOOLEAN, o \in {0, 1}}

\* the first conversion error of a set of values, "none" without
RECURSIVE ConvertError(_, _, _)
ConvertError(values, local, k) ==
    IF k > Len(RecFields) THEN "none"
    ELSE LET c == value_convert_to_db(RecFields[k], values[RecFields[k]], local)
         IN  IF c.err # "none" THEN c.err
             ELSE ConvertError(values, local, k + 1)

\* the row an INSERT of the values leaves in the table
RecRow(values, local, id) ==
    [key \in {"id"} \cup {RecFields[k] : k \in 1..Len(RecFields)} |->
        IF key = "id" THEN DBInt(id)
        ELSE stored(key, value_convert_to_db(key, values[key], local).val)]

\* TableDef._obj_from_db, for the record type
rec_from_db(row, local) ==
    [cls |-> "rec",
     attrs |-> [key \in DOMAIN row |->
                   IF key = "id" THEN PyInt(row[key].v)
                   ELSE value_convert_to_py(key, row[key], local)],
     live |-> TRUE, db_id |-> row["id"].v, fk_ids |-> EmptyMap,
     modified |-> EmptyMap]

\* Rec(**values).save(): the constructor checks each value, save() inserts
\* the row and stores the identity in the instance
CreateRec ==
    /\ CanStep
    /\ HasFree(objs)
    /\ \E values \in RecValues :
           LET local == dbase.local
               e == ConvertError(values, local, 1)
               id == NextRowId(db)
           IN  /\ last' = [op |-> "create", i |-> IF e = "none" THEN FreeSlot(objs) ELSE 0,
                           key |-> "", val |-> Unset, err |-> e, ret |-> Unset]
               /\ IF e # "none"
                  THEN UNCHANGED <<db, objs>>
                  ELSE /\ db' = db \cup {RecRow(values, local, id)}
                       /\ objs' = [objs EXCEPT ![FreeSlot(objs)] =
                              [cls |-> "rec",
                               attrs |-> [key \in DOMAIN values \cup {"id"} |->
                                             IF key = "id" THEN PyInt(id)
                                             ELSE values[key]],
                               live |-> TRUE, db_id |-> id,
                               fk_ids |-> EmptyMap, modified |-> EmptyMap]]
    /\ nops' = nops + 1
    /\ UNCHANGED <<log, queries, heap, threads, dbase, tdef>>

\* Rec.get_one(id=k)
FetchRec ==
    /\ CanStep
    /\ HasFree(objs)
    /\ \E k \in 1..(MaxId + 1) :
           LET rows == {r \in db : r["id"].v = k}
           IN  IF rows = {}
               THEN /\ last' = [op |-> "get_one", i |-> 0, key |-> "id",
                                val |-> PyInt(k), err |-> "KeyError",
                                ret |-> Unset]
                    /\ UNCHANGED objs
               ELSE /\ last' = [op |-> "get_one", i |-> FreeSlot(objs),
                                key |-> "id", val |-> PyInt(k),
                                err |-> "none", ret |-> PyObj(FreeSlot(objs))]
                    /\ objs' = [objs EXCEPT ![FreeSlot(objs)] =
                           rec_from_db(CHOOSE r \in rows : TRUE, dbase.local)]
    /\ nops' = nops + 1
    /\ UNCHANGED <<db, log, queries, heap, threads, dbase, tdef>>

StoreInit ==
    /\ db = {}
    /\ objs = [i \in Slots |-> FreeObj]
    /\ log = <<>>
    /\ last = [op |-> "none", i |-> 0, key |-> "", val |-> Unset,
               err |-> "none", ret |-> Unset]
    /\ nops = 0
    /\ queries = <<>>
    /\ heap = <<>>
    /\ threads = <<>>
    /\ \E local \in LocalOffsets : dbase = [local |-> local]
    /\ tdef = <<>>

StoreNext == CreateRec \/ FetchRec

StoreSpec == StoreInit /\ [][StoreNext]_vars

\* C36: an instance fetched by its identity has, in every field, the value
\* the instance of that identity was created from (a float field up to the
\* widening of an integer)
C36_RoundTrip ==
    [][(last'.op = "get_one" /\ last'.err = "none" /\ nops' = nops + 1) =>
          \A i \in Allocated(objs) :
              objs[i].db_id = last'.val.v =>
                  \A k \in 1..Len(RecFields) :
                      py_equal(RecFields[k],
                               objs'[last'.i].attrs[RecFields[k]],
                               objs[i].attrs[RecFields[k]])]_vars

\* ------------------------------------------------------- table creation
\* ORM fields a record type may declare besides id: value fields and
\* foreign keys to other tables, nullable or not, unique or not
ORMValue(name, db_type, nullable, unique) ==
    [name |-> name, db_name |-> name, kind |-> "value", db_type |-> db_type,
     nullable |-> nullable, unique |-> unique, target |-> "none"]

ORMFK(name, db_name, target, nullable, unique) ==
    [name |-> name, db_name |-> db_name, kind |-> "fk", db_type |-> "int",
     nullable |-> nullable, unique |-> unique, target |-> target]

ORMId ==
    [name |-> "id", db_name |-> "id", kind |-> "id", db_type |-> "int",
     nullable |-> FALSE, unique |-> TRUE, target |-> "none"]

TableFields ==
    {ORMValue("uval", "int", FALSE, TRUE), ORMValue("sval", "str", TRUE, FALSE),
     ORMValue("fval", "float", FALSE, FALSE),
     ORMFK("ref", "ref_id", "parent", FALSE, FALSE),
     ORMFK("opt", "opt_id", "parent", TRUE, FALSE),
     ORMFK("own", "own_id", "other", TRUE, TRUE)}

\* field lists of one to three declared fields with different names
FieldLists ==
    {<<f>> : f \in TableFields}
    \cup {l \in {<<f, g>> : f \in TableFields, g \in TableFields} :
              l[1].name # l[2].name}
    \cup {l \in {<<f, g, h>> : f \in TableFields, g \in TableFields,
                               h \in TableFields} :
              l[1].name # l[2].name /\ l[1].name # l[3].name
              /\ l[2].name # l[3].name}

\* DBType.from_type and DBType values
DBTypeValue(db_type) ==
    CASE db_type = "pkey" -> "integer primary key"
      [] db_type = "int" -> "integer"
      [] db_type = "float" -> "real"
      [] db_type = "str" -> "text"
      [] db_type = "bytes" -> "blob"

\* get_db_field of ORMIDField, ORMValueField, ORMFloatValueField, ORMFKField
get_db_field(f) ==
    CASE f.kind = "id" ->
             [fk |-> FALSE, type |-> "pkey", nullable |-> FALSE,
              unique |-> FALSE, ref_table |-> "", ref_field |-> ""]
      [] f.kind = "value" ->
             [fk |-> FALSE, type |-> f.db_type, nullable |-> f.nullable,
              unique |-> f.unique, ref_table |-> "", ref_field |-> ""]
      [] f.kind = "fk" ->
             [fk |-> TRUE, type |-> "int", nullable |-> f.nullable,
              unique |-> f.unique, ref_table |-> f.target, ref_field |-> "id"]

\* TableDef.get_db_fields: the dict as the list of its items, id first
get_db_fields(declared) ==
    [k \in 1..(Len(declared) + 1) |->
        LET f == IF k = 1 THEN ORMId ELSE declared[k - 1]
        IN  <<f.db_name, get_db_field(f)>>]

\* variant: every foreign key is deleted with its target
on_delete_Cascade(field_def) == "cascade"

\* DBFKField.get_fk_def: the ON DELETE behaviour
on_delete(field_def) == IF field_def.nullable THEN "set null" ELSE "cascade"

\* _create_table_parts, the first loop
RECURSIVE column_parts(_, _)
column_parts(items, first) ==
    IF items = <<>> THEN <<>>
    ELSE LET field_name == items[1][1]
             field_def == items[1][2]
         IN  <<Separator("", ", ", first), field_name, " ",
               DBTypeValue(field_def.type),
               IF field_def.nullable THEN " null" ELSE " not null">>
             \o (IF field_def.unique THEN <<" unique">> ELSE <<>>)
             \o column_parts(Tail(items), FALSE)

\* _create_table_parts, the second loop; the separator is the one of the
\* first loop
RECURSIVE fk_parts(_, _)
fk_parts(items, first) ==
    IF items = <<>> THEN <<>>
    ELSE LET field_name == items[1][1]
             field_def == items[1][2]
         IN  IF ~ field_def.fk THEN fk_parts(Tail(items), first)
             ELSE <<Separator("", ", ", first), "foreign key (", field_name,
                    ") references ", field_def.ref_table, " (",
                    field_def.ref_field, ") on delete ", on_delete(field_def)>>
                  \o fk_parts(Tail(items), FALSE)

\* Database._create_table_parts
create_table_parts(name, items) ==
    <<"create table ", name, " (">> \o column_parts(items, TRUE)
    \o fk_parts(items, items = <<>>) \o <<");">>

\* TableDef._create_tables, the init hook of a record type: one statement
CreateTables ==
    /\ CanStep
    /\ log = <<>>
    /\ log' = <<[sql |-> create_table_parts(tdef.table_name,
                                            get_db_fields(tdef.declared))]>>
    /\ last' = [op |-> "create_tables", i |-> 0, key |-> "", val |-> Unset,
                err |-> "none", ret |-> Unset]
    /\ nops' = nops + 1
    /\ UNCHANGED <<db, objs, queries, heap, threads, dbase, tdef>>

TableInit ==
    /\ \E declared \in FieldLists :
           tdef = [table_name |-> "rec", declared |-> declared]
    /\ db = EmptyDB
    /\ objs = [i \in Slots |-> FreeObj]
    /\ log = <<>>
    /\ last = [op |-> "none", i |-> 0, key |-> "", val |-> Unset,
               err |-> "none", ret |-> Unset]
    /\ nops = 0
    /\ queries = <<>>
    /\ heap = <<>>
    /\ threads = <<>>
    /\ dbase = <<>>

TableNext == CreateTables

TableSpec == TableInit /\ [][TableNext]_vars

\* the statement read back: the parts between " (" and ");", the places of
\* its separators, and the item each separator starts
Body(sql) == SubSeq(sql, 4, Len(sql) - 1)

SepAt(body) == {k \in 1..Len(body) : body[k] \in {"", ", "}}

ItemNo(body, k) == Cardinality({j \in SepAt(body) : j <= k})

ItemEnd(body, k) ==
    IF \E j \in SepAt(body) : j > k
    THEN (CHOOSE j \in SepAt(body) :
              j > k /\ \A m \in SepAt(body) : m > k => j <= m) - 1
    ELSE Len(body)

\* the foreign keys among the declared fields, in field order
IsFK(f) == f.kind = "fk"

FKFields(declared) == SelectSeq(declared, IsFK)

\* C37: the CREATE TABLE statement lists the columns in declaration
\* order with id first, then exactly one foreign key clause per foreign key
\* field in field order, and a clause ends with 'set null' iff its field is
\* nullable and with 'cascade' otherwise
C37_TableDDL ==
    last.op = "create_tables" =>
        LET sql == log[1].sql
            body == Body(sql)
            declared == tdef.declared
            fks == FKFields(declared)
            n == Len(declared) + 1
        IN  /\ sql[1] = "create table " /\ sql[2] = tdef.table_name
            /\ sql[Len(sql)] = ");"
            /\ Cardinality(SepAt(body)) = n + Len(fks)
            /\ \A k \in SepAt(body) :
                   LET no == ItemNo(body, k)
                   IN  IF no <= n
                       THEN body[k + 1] =
                                (IF no = 1 THEN "id"
                                 ELSE declared[no - 1].db_name)
                       ELSE /\ body[k + 1] = "foreign key ("
                            /\ body[k + 2] = fks[no - n].db_name
                            /\ body[k + 4] = fks[no - n].target
                            /\ body[ItemEnd(body, k) - 1] = ") on delete "
                            /\ body[ItemEnd(body, k)] =
                                   (IF fks[no - n].nullable THEN "set null"
                                    ELSE "cascade")

\* a table with a value column between a required and an optional foreign
\* key has been created
C37_Witness ==
    /\ last.op = "create_tables"
    /\ Len(tdef.declared) = 3
    /\ tdef.declared[1].kind = "fk" /\ ~ tdef.declared[1].nullable
    /\ tdef.declared[2].kind = "value"
    /\ tdef.declared[3].kind = "fk" /\ tdef.declared[3].nullable
    /\ Len(log) = 1

====
